---- MODULE Spec2Model ----
(***************************************************************************)
(* A model of boltdb-rs: the meta page (common/meta.rs), the node layer    *)
(* (node.rs, common/inode.rs), the database handle (db.rs) and the         *)
(* transaction / freelist protocol that tx.rs, bucket.rs and freelist.rs   *)
(* declare.                                                                *)
(*                                                                         *)
(* Unsigned 64-bit values that the model needs in full width are kept as   *)
(* four 16-bit limbs, least significant first (TLC integers are 32 bits).  *)
(* Small page ids and transaction ids are naturals; U64MAX stands for      *)
(* 0xFFFFFFFFFFFFFFFF.                                                     *)
(***************************************************************************)
EXTENDS Integers, Sequences, FiniteSets, TLC

(***************************************************************************)
(* Bounds of the model.                                                    *)
(***************************************************************************)
\* threads that begin transactions
NumProcs == 3
\* keys are the one-byte strings <<1>> .. <<MaxKey>>, values <<1>> .. <<MaxVal>>
MaxKey == 2
MaxVal == 2
\* the highest transaction id a writer may take
MaxTx == 4
\* the first NumWriters threads begin write transactions, the last NumReaders threads
\* begin read transactions
NumWriters == 2
NumReaders == 2
\* puts and deletes of one write transaction
MaxOps == 1
\* the file holds the pages 0 .. MaxPgid
MaxPgid == 7
\* transaction ids and high water marks of the metas given to validate / write / open
MaxMetaTxid == 3
MaxMetaPgid == 5
\* keys a cursor can seek: 1..MaxCursorKey, the bucket holding the odd ones below it
MaxCursorKey == 8
\* calls of put and delete on one bucket
MaxPutCalls == 2
\* post-commit callbacks one write transaction registers
MaxHandlers == 1
\* the small counter and depth of the BucketStats that are added
MaxStat == 3
\* the keys of a node are <<1>> .. <<MaxNodeKey>>; calls of put and del on one node
MaxNodeKey == 3
MaxNodeCalls == 2
\* the nodes given to size and split_two: up to MaxSplitInodes inodes, values of 1 byte
\* or of LongValue bytes, pages of SplitPageSize bytes and of twice as many
MaxSplitInodes == 6
LongValue == 40
SplitPageSize == 100
\* elements of the pages that are read and inodes of the nodes that are written
MaxPageElements == 2
MaxAddressWords == 3
MaxFreelistIds == 2
MaxRun == 3
MaxAllocCalls == 2
MaxCheckPgid == 4

(***************************************************************************)
(* Program constants.                                                      *)
(***************************************************************************)
\* common/types.rs: MAGIC = 0xED0CDAED, as its four bytes, least significant first
MAGIC == <<237, 218, 12, 237>>
VERSION == 2
\* common/types.rs: PGID_NO_FREELIST = 0xFFFFFFFFFFFFFFFF
U64MAX == -1
PGID_NO_FREELIST == U64MAX
\* common/page.rs: PageFlags
BRANCH_PAGE == 1
LEAF_PAGE == 2
META_PAGE == 4
FREELIST_PAGE == 16
\* common/page.rs BUCKET_LEAF_FLAG: the leaf element holds a sub-bucket
BUCKET_LEAF_FLAG == 1
\* bucket.rs: MAX_KEY_SIZE, MAX_VALUE_SIZE = (1 << 31) - 2
MAX_KEY_SIZE == 32768
MAX_VALUE_SIZE == 2147483646
\* common/page.rs: size_of::<Page>(), MIN_KEYS_PER_PAGE, size_of::<BranchPageElement>(),
\* size_of::<LeafPageElement>()
PAGE_HEADER_SIZE == 16
MIN_KEYS_PER_PAGE == 2
BRANCH_PAGE_ELEMENT_SIZE == 16
LEAF_PAGE_ELEMENT_SIZE == 16
\* bucket.rs: MIN_FILL_PERCENT = 0.1, MAX_FILL_PERCENT = 1.0, in hundredths
MIN_FILL_PERCENT == 10
MAX_FILL_PERCENT == 100
\* i32::MAX and i32::MIN
I32_MAX == 2147483647
I32_MIN == -2147483647 - 1
\* db.rs RawDB::default: page_size (DEFAULT_PAGE_SIZE, the OS page size)
DEFAULT_PAGE_SIZE == 4096
\* common/page.rs: the count of a freelist page that stands for an overflow
OVERFLOW_COUNT == 65535

Min(a, b) == IF a < b THEN a ELSE b
Max(a, b) == IF a > b THEN a ELSE b

(***************************************************************************)
(* Bytes and 64-bit arithmetic.                                            *)
(***************************************************************************)
\* the bytes of a u32 / u64 field in memory (little endian)
U32Bytes(n) ==
    IF n = U64MAX THEN <<255, 255, 255, 255>>
    ELSE <<n % 256, (n \div 256) % 256, (n \div 65536) % 256, (n \div 16777216) % 256>>

U64Bytes(n) ==
    IF n = U64MAX THEN <<255, 255, 255, 255, 255, 255, 255, 255>>
    ELSE U32Bytes(n) \o <<0, 0, 0, 0>>

\* unsigned comparison a >= b of two u64 values
U64Ge(a, b) ==
    IF a = U64MAX THEN TRUE
    ELSE IF b = U64MAX THEN FALSE
    ELSE a >= b

Bit(a, i) == (a \div (2 ^ i)) % 2

\* bitwise exclusive or of two 4-bit values, tabulated
XorNibble ==
    [a \in 0..15 |-> [b \in 0..15 |->
          ((Bit(a, 0) + Bit(b, 0)) % 2)
        + ((Bit(a, 1) + Bit(b, 1)) % 2) * 2
        + ((Bit(a, 2) + Bit(b, 2)) % 2) * 4
        + ((Bit(a, 3) + Bit(b, 3)) % 2) * 8]]

\* bitwise exclusive or of two bytes
Xor8(a, b) == XorNibble[a % 16][b % 16] + 16 * XorNibble[a \div 16][b \div 16]

\* fnv crate: FnvHasher::default() starts from 0xcbf29ce484222325
FnvOffsetBasis == <<8997, 33826, 40164, 52210>>

\* h * 0x100000001b3 mod 2^64, h in 16-bit limbs: h * 435 + (h << 40)
FnvMulPrime(h) ==
    LET a0 == h[1] * 435
        a1 == h[2] * 435 + (a0 \div 65536)
        a2 == h[3] * 435 + (a1 \div 65536)
        a3 == h[4] * 435 + (a2 \div 65536)
        s2 == (h[1] * 256) % 65536
        s3 == (h[2] * 256 + (h[1] \div 256)) % 65536
        r2 == (a2 % 65536) + s2
        r3 == (a3 % 65536) + s3 + (r2 \div 65536)
    IN  <<a0 % 65536, a1 % 65536, r2 % 65536, r3 % 65536>>

\* FnvHasher::write for one byte: xor into the low byte, then multiply
FnvStep(h, b) ==
    FnvMulPrime(<<(h[1] \div 256) * 256 + Xor8(h[1] % 256, b), h[2], h[3], h[4]>>)

RECURSIVE FnvFrom(_, _, _)
FnvFrom(h, bytes, i) ==
    IF i > Len(bytes) \/ Len(h) # 4 THEN h ELSE FnvFrom(FnvStep(h, bytes[i]), bytes, i + 1)

Fnv1a64(bytes) == FnvFrom(FnvOffsetBasis, bytes, 1)

ZeroSum == <<0, 0, 0, 0>>

(***************************************************************************)
(* common/meta.rs: the meta page.                                          *)
(***************************************************************************)
\* common/bucket.rs InBucket and common/meta.rs Meta, with #[derive(Default)]
MetaDefault ==
    [magic |-> <<0, 0, 0, 0>>, version |-> 0, page_size |-> 0, flags |-> 0,
     root |-> [root |-> 0, sequence |-> 0],
     freelist |-> 0, pgid |-> 0, txid |-> 0, checksum |-> ZeroSum]

\* Meta::as_slice_no_checksum: the bytes of the #[repr(C)] struct up to the checksum field
as_slice_no_checksum(m) ==
    m.magic \o U32Bytes(m.version) \o U32Bytes(m.page_size) \o U32Bytes(m.flags)
        \o U64Bytes(m.root.root) \o U64Bytes(m.root.sequence)
        \o U64Bytes(m.freelist) \o U64Bytes(m.pgid) \o U64Bytes(m.txid)

\* Meta::sum64 of the metas of the files of the model, computed once: magic, version
\* and page size as written; indexed by root, freelist, high water mark and txid
Sum64Table ==
    [root \in 2..MaxPgid |-> [freelist \in 2..MaxPgid |->
        [pgid \in 4..(MaxPgid + 1) |-> [txid \in 0..MaxTx |->
            Fnv1a64(MAGIC \o U32Bytes(VERSION) \o U32Bytes(DEFAULT_PAGE_SIZE) \o U32Bytes(0)
                \o U64Bytes(root) \o U64Bytes(0)
                \o U64Bytes(freelist) \o U64Bytes(pgid) \o U64Bytes(txid))]]]]

\* Meta::sum64
sum64(m) ==
    IF /\ m.magic = MAGIC /\ m.version = VERSION /\ m.page_size = DEFAULT_PAGE_SIZE
       /\ m.flags = 0 /\ m.root.sequence = 0
       /\ m.root.root \in 2..MaxPgid /\ m.freelist \in 2..MaxPgid
       /\ m.pgid \in 4..(MaxPgid + 1) /\ m.txid \in 0..MaxTx
    THEN Sum64Table[m.root.root][m.freelist][m.pgid][m.txid]
    ELSE Fnv1a64(as_slice_no_checksum(m))

\* Meta::validate: "Ok" or the error it returns
validate(m) ==
    IF m.magic # MAGIC THEN "Invalid"
    ELSE IF m.version # VERSION THEN "VersionMismatch"
    ELSE IF m.checksum # ZeroSum /\ m.checksum # sum64(m) THEN "Checksum"
    ELSE "Ok"

\* common/page.rs Page: the header fields and the body the model needs
PageDefault ==
    [id |-> 0, flags |-> 0, count |-> 0, overflow |-> 0,
     meta |-> MetaDefault, inodes |-> <<>>, ids |-> <<>>]

\* a plausible slip in Meta::write: the page id does not follow the transaction id
MetaWriteFixedPage(m, p) ==
    IF U64Ge(m.root.root, m.pgid) THEN [panicked |-> TRUE, self |-> m, page |-> p]
    ELSE IF U64Ge(m.freelist, m.pgid) /\ m.freelist # PGID_NO_FREELIST
        THEN [panicked |-> TRUE, self |-> m, page |-> p]
    ELSE LET m2 == [m EXCEPT !.checksum = sum64(m)]
         IN  [panicked |-> FALSE, self |-> m2,
              page |-> [p EXCEPT !.id = 0, !.flags = META_PAGE, !.meta = m2]]

\* Meta::write without the test of the freelist against the high water mark
MetaWriteUncheckedFreelist(m, p) ==
    IF U64Ge(m.root.root, m.pgid) THEN [panicked |-> TRUE, self |-> m, page |-> p]
    ELSE LET m2 == [m EXCEPT !.checksum = sum64(m)]
         IN  [panicked |-> FALSE, self |-> m2,
              page |-> [p EXCEPT !.id = m.txid % 2, !.flags = META_PAGE, !.meta = m2]]

\* Meta::write that copies the meta with the checksum it holds
MetaWriteKeepsChecksum(m, p) ==
    IF U64Ge(m.root.root, m.pgid) THEN [panicked |-> TRUE, self |-> m, page |-> p]
    ELSE IF U64Ge(m.freelist, m.pgid) /\ m.freelist # PGID_NO_FREELIST
        THEN [panicked |-> TRUE, self |-> m, page |-> p]
    ELSE [panicked |-> FALSE, self |-> m,
          page |-> [p EXCEPT !.id = m.txid % 2, !.flags = META_PAGE, !.meta = m]]

\* Meta::write: the panics, the page id, the flags, the checksum, the copy
MetaWrite(m, p) ==
    IF U64Ge(m.root.root, m.pgid) THEN [panicked |-> TRUE, self |-> m, page |-> p]
    ELSE IF U64Ge(m.freelist, m.pgid) /\ m.freelist # PGID_NO_FREELIST
        THEN [panicked |-> TRUE, self |-> m, page |-> p]
    ELSE LET m2 == [m EXCEPT !.checksum = sum64(m)]
         IN  [panicked |-> FALSE, self |-> m2,
              page |-> [p EXCEPT !.id = m.txid % 2, !.flags = META_PAGE, !.meta = m2]]

\* Meta::inc_txid
inc_txid(m) == [m EXCEPT !.txid = @ + 1]

(***************************************************************************)
(* Keys, values, inodes and nodes (common/inode.rs, node.rs).              *)
(***************************************************************************)
Procs == 1..NumProcs
Writers == 1..Min(NumWriters, NumProcs)
Readers == (Max(NumProcs - NumReaders, 0) + 1)..NumProcs
PgIds == 0..MaxPgid
TxIds == 0..MaxTx
Keys == {<<k>> : k \in 1..MaxKey}
Vals == {<<v>> : v \in 1..MaxVal}

\* the smallest element of a non-empty set of numbers
SetMin(S) == CHOOSE x \in S : \A y \in S : x <= y

\* the elements of a set of numbers as an ascending sequence
RECURSIVE SortedSeq(_)
SortedSeq(S) == IF S = {} THEN <<>> ELSE <<SetMin(S)>> \o SortedSeq(S \ {SetMin(S)})

\* the elements of a sequence
Range(q) == {q[i] : i \in 1..Len(q)}

\* <[u8]>::cmp: lexicographic order of byte strings, as -1, 0, 1
KeyCmp(a, b) ==
    LET n == Min(Len(a), Len(b))
        diff == {i \in 1..n : a[i] # b[i]}
    IN  IF diff # {}
        THEN (IF a[SetMin(diff)] < b[SetMin(diff)] THEN -1 ELSE 1)
        ELSE IF Len(a) < Len(b) THEN -1 ELSE IF Len(a) > Len(b) THEN 1 ELSE 0

\* common/inode.rs Inode and its #[derive(Default)]
Inode(flags, pgid, key, value) ==
    [flags |-> flags, pgid |-> pgid, key |-> key, value |-> value]

InodeDefault == Inode(0, 0, <<>>, <<>>)

\* Vec::insert / Vec::remove at a 0-based index
InsertAt(q, index, x) == SubSeq(q, 1, index) \o <<x>> \o SubSeq(q, index + 1, Len(q))
RemoveAt(q, index) == SubSeq(q, 1, index) \o SubSeq(q, index + 2, Len(q))

\* Inodes::binary_search_by on inodes sorted by key: Ok(index) of the match,
\* or Err(index) of the place where the key would be inserted
binary_search_by(inodes, key) ==
    LET eq == {i \in 1..Len(inodes) : KeyCmp(inodes[i].key, key) = 0}
        lt == {i \in 1..Len(inodes) : KeyCmp(inodes[i].key, key) = -1}
    IN  IF eq # {} THEN [ok |-> TRUE, index |-> SetMin(eq) - 1]
        ELSE [ok |-> FALSE, index |-> Cardinality(lt)]

\* node.rs RawNode: the fields the model needs
NodeOf(pgid, inodes) ==
    [is_leaf |-> TRUE, unbalanced |-> FALSE, pgid |-> pgid, inodes |-> inodes]

\* a put that writes the inode after the last one
NodePutAtEnd(n, old_key, new_key, value, pg_id, flags) ==
    [panicked |-> FALSE,
     node |-> [n EXCEPT !.inodes = Append(@, Inode(flags, pg_id, new_key, value))]]

\* Node::put; panicked is set when an assert or an index out of bounds fires
NodePut(n, old_key, new_key, value, pg_id, flags) ==
    IF old_key = <<>> \/ new_key = <<>> THEN [panicked |-> TRUE, node |-> n]
    ELSE
        LET found == binary_search_by(n.inodes, old_key)
            index == found.index
            inodes == IF index < Len(n.inodes) /\ n.inodes[index + 1].key # old_key
                      THEN InsertAt(n.inodes, index, InodeDefault)
                      ELSE n.inodes
        IN  IF index >= Len(inodes) THEN [panicked |-> TRUE, node |-> n]
            ELSE [panicked |-> FALSE,
                  node |-> [n EXCEPT !.inodes =
                      [inodes EXCEPT ![index + 1] = Inode(flags, pg_id, new_key, value)]]]

\* Node::del
NodeDel(n, key) ==
    LET found == binary_search_by(n.inodes, key)
        index == found.index
    IN  IF ~found.ok THEN n
        ELSE IF index >= Len(n.inodes) \/ KeyCmp(n.inodes[index + 1].key, key) = 0 THEN n
        ELSE [n EXCEPT !.inodes = RemoveAt(n.inodes, index), !.unbalanced = TRUE]

(***************************************************************************)
(* The bucket operations that bucket.rs declares (BucketApi), over the     *)
(* root leaf.  An Option is the set of its values: {} is None.             *)
(***************************************************************************)
\* Bucket::get on the inodes of a leaf
BucketGet(inodes, key) == {inodes[i].value : i \in {j \in 1..Len(inodes) : inodes[j].key = key}}

\* the map a leaf holds
ViewOf(inodes) == [k \in Keys |-> BucketGet(inodes, k)]

(***************************************************************************)
(* The freelist that freelist.rs declares (trait Interface).               *)
(***************************************************************************)
\* a freelist: the free ids, the pending ids by releasing txid, the open readers by txid
FreelistNew ==
    [ids |-> {}, pending |-> [t \in TxIds |-> {}], readonly_txids |-> [t \in TxIds |-> 0]]

\* Interface::init
FreelistInit(f, ids) == [f EXCEPT !.ids = ids]

\* all pending ids
FreelistPendingIds(f) == UNION {f.pending[t] : t \in DOMAIN f.pending}

\* Interface::freed
FreelistFreed(f, pgid) == pgid \in f.ids \/ pgid \in FreelistPendingIds(f)

\* an allocate that hands a run out and leaves it in the free set
FreelistAllocateKeepsFree(f, txid, n) ==
    LET starts == {s \in f.ids : \A i \in 0..(n - 1) : (s + i) \in f.ids}
    IN  IF starts = {} THEN [pgid |-> 0, f |-> f]
        ELSE [pgid |-> SetMin(starts), f |-> f]

\* an allocate that takes the last run of n free ids
FreelistAllocateLastRun(f, txid, n) ==
    LET starts == {s \in f.ids : \A i \in 0..(n - 1) : (s + i) \in f.ids}
        last == CHOOSE s \in starts : \A y \in starts : y <= s
    IN  IF starts = {} THEN [pgid |-> 0, f |-> f]
        ELSE [pgid |-> last, f |-> [f EXCEPT !.ids = @ \ (last..(last + n - 1))]]

\* Interface::allocate: the smallest start of a run of n free ids, or 0
FreelistAllocate(f, txid, n) ==
    LET starts == {s \in f.ids : \A i \in 0..(n - 1) : (s + i) \in f.ids}
    IN  IF starts = {} THEN [pgid |-> 0, f |-> f]
        ELSE [pgid |-> SetMin(starts),
              f |-> [f EXCEPT !.ids = @ \ (SetMin(starts)..(SetMin(starts) + n - 1))]]

\* Interface::free: the page and its overflow become pending for txid
FreelistFree(f, txid, p) ==
    LET run == p.id..(p.id + p.overflow)
    IN  IF p.id <= 1 \/ \E id \in run : FreelistFreed(f, id)
        THEN [panicked |-> TRUE, f |-> f]
        ELSE [panicked |-> FALSE, f |-> [f EXCEPT !.pending[txid] = @ \cup run]]

\* a release that does not look at the open readers
FreelistReleasableAlways(f, t) == TRUE

\* a pending entry of txid t may be promoted: no open reader is older than t
FreelistReleasable(f, t) == \A r \in DOMAIN f.readonly_txids : f.readonly_txids[r] > 0 => r >= t

\* Interface::release_range
FreelistReleaseRange(f, begin, end) ==
    LET done == {t \in DOMAIN f.pending : begin <= t /\ t <= end /\ FreelistReleasable(f, t)}
    IN  [f EXCEPT !.ids = @ \cup UNION {f.pending[t] : t \in done},
                  !.pending = [t \in DOMAIN f.pending |-> IF t \in done THEN {} ELSE f.pending[t]]]

\* a release that promotes nothing
FreelistReleaseNothing(f, txid) == f

\* Interface::release
FreelistRelease(f, txid) == FreelistReleaseRange(f, 0, txid)

\* Interface::add_readonly_txid
FreelistAddReadonlyTxid(f, txid) == [f EXCEPT !.readonly_txids[txid] = @ + 1]

\* a remove that forgets every reader of the txid, not one of them
FreelistRemoveEveryReadonlyTxid(f, txid) == [f EXCEPT !.readonly_txids[txid] = 0]

\* Interface::remove_readonly_txid
FreelistRemoveReadonlyTxid(f, txid) == [f EXCEPT !.readonly_txids[txid] = Max(@ - 1, 0)]

\* a rollback that leaves the pending ids of the txid where they are
FreelistRollbackKeepsPending(f, txid) == f

\* Interface::rollback
FreelistRollback(f, txid) == [f EXCEPT !.pending[txid] = {}]

\* ReadWriter::write: the page holds the free and the pending ids, ascending
FreelistWrite(f, p) ==
    LET all == SortedSeq(f.ids \cup FreelistPendingIds(f))
    IN  [p EXCEPT !.flags = FREELIST_PAGE, !.count = Len(all), !.ids = all]

\* ReadWriter::read
FreelistRead(f, p) == FreelistInit(f, Range(p.ids))

\* Interface::reload: read the page, then take out what is still pending
FreelistReload(f, p) == FreelistInit(f, Range(p.ids) \ FreelistPendingIds(f))

(***************************************************************************)
(* db.rs: the database handle.  An Option is a sequence of length 0 or 1   *)
(* (meta0, meta1 are always Some), or the set of its values (rwtx).        *)
(***************************************************************************)
\* impl Default for RawDB
RawDBDefault ==
    [path |-> "test.db", opened |-> TRUE, page_size |-> DEFAULT_PAGE_SIZE, datasz |-> 2048,
     meta0 |-> MetaDefault, meta1 |-> MetaDefault,
     rwtx |-> {}, txs |-> [t \in TxIds |-> 0], freelist |-> <<>>, rwlock |-> {}]

\* DB::open_with: the path and the options are not used
OpenWith(path, options) == [ok |-> TRUE, db |-> RawDBDefault]

\* DB::open
Open(path) == OpenWith(path, "default")

\* DB::path
DbPath(d) == d.path

\* the authoritative meta of two metas: the valid one with the higher txid
MetaSelect(m0, m1) ==
    LET a == IF m1.txid > m0.txid THEN m1 ELSE m0
        b == IF m1.txid > m0.txid THEN m0 ELSE m1
    IN  IF validate(a) = "Ok" THEN [ok |-> TRUE, meta |-> a]
        ELSE IF validate(b) = "Ok" THEN [ok |-> TRUE, meta |-> b]
        ELSE [ok |-> FALSE, meta |-> MetaDefault]

\* the authoritative meta of an open database
DbMeta(d) == MetaSelect(d.meta0, d.meta1)

\* the handle that opening a file gives: the two metas and the freelist of the file
DbOpenFile(path, f) ==
    LET d == [RawDBDefault EXCEPT !.path = path, !.meta0 = f[0].meta, !.meta1 = f[1].meta]
        m == DbMeta(d).meta
    IN  [d EXCEPT !.freelist = <<FreelistRead(FreelistNew, f[m.freelist])>>]

\* a begin that does not wait for the rwlock
RwLockFreeAlways(d) == TRUE

\* the rwlock is free
RwLockFree(d) == d.rwlock = {}

(***************************************************************************)
(* tx.rs: transactions (TxApi, RawTx).                                     *)
(***************************************************************************)
NoView == [k \in Keys |-> {}]

\* RawTx: state is "none", "waiting" (begin of a writer blocked on the rwlock),
\* "reader", or the writer's progress "writer", "spilled", "written"; view and begin
\* are history: the map the transaction expects, what a writer found when it began
TxNew ==
    [state |-> "none", meta |-> MetaDefault, node |-> <<>>, pages |-> {}, view |-> NoView,
     ops |-> 0, begin |-> <<>>, handlers |-> 0]

IsWriter(t) == t.state \in {"writer", "spilled", "written"}

\* TxApi::on_commit: one more callback in RawTx.commit_handlers
TxOnCommit(t) == [t EXCEPT !.handlers = @ + 1]

\* commit step 7: the callbacks of the transaction are invoked; called holds the txids
\* whose callbacks have run
TxRunHandlers(called, t) == IF t.handlers > 0 THEN called \cup {t.meta.txid} ELSE called

\* the end of a transaction that did not reach its commit point, with the callbacks invoked
TxDropHandlersInvokes(called, t) == TxRunHandlers(called, t)

\* the end of a transaction that did not reach its commit point: its callbacks are
\* dropped with it
TxDropHandlers(called, t) == called

\* begin of a read transaction: copy the meta, register the reader
DbBeginTx(d) ==
    LET m == DbMeta(d).meta
    IN  [db |-> [d EXCEPT !.txs[m.txid] = @ + 1,
                          !.freelist[1] = FreelistAddReadonlyTxid(@, m.txid)],
         tx |-> [TxNew EXCEPT !.state = "reader", !.meta = m]]

\* begin of a write transaction by thread p, once the rwlock is free
DbBeginRwTx(d, p) ==
    LET m == inc_txid(DbMeta(d).meta)
    IN  [db |-> [d EXCEPT !.rwlock = {p}, !.rwtx = {m.txid},
                          !.freelist[1] = FreelistRelease(@, m.txid)],
         tx |-> [TxNew EXCEPT !.state = "writer", !.meta = m]]

\* Tx::page: the dirty page of the transaction, else the page of the file
TxPage(f, t, pgid) ==
    IF \E pg \in t.pages : pg.id = pgid THEN CHOOSE pg \in t.pages : pg.id = pgid ELSE f[pgid]

\* RawTxApi::allocate: from the freelist, else at the high water mark
TxAllocate(m, fl, count) ==
    LET a == FreelistAllocate(fl, m.txid, count)
    IN  IF a.pgid # 0 THEN [pgid |-> a.pgid, f |-> a.f, meta |-> m]
        ELSE [pgid |-> m.pgid, f |-> fl, meta |-> [m EXCEPT !.pgid = @ + count]]

\* the inodes of the root leaf as the transaction sees them
TxRootInodes(f, t) ==
    IF t.node # <<>> THEN t.node[1].inodes ELSE TxPage(f, t, t.meta.root.root).inodes

\* Bucket::node: the root node of the transaction, materialised from its page
TxNode(f, t) ==
    IF t.node # <<>> THEN t.node[1]
    ELSE NodeOf(t.meta.root.root, TxPage(f, t, t.meta.root.root).inodes)

\* the inode of a key in the root leaf holds a sub-bucket
HoldsBucket(inodes, key) ==
    \E i \in 1..Len(inodes) :
        inodes[i].key = key /\ inodes[i].flags % (2 * BUCKET_LEAF_FLAG) >= BUCKET_LEAF_FLAG

\* the checks of Bucket::put before it touches the bucket, in their order
PutError(f, t, key, value) ==
    IF t.state = "none" THEN "TxClosed"
    ELSE IF ~IsWriter(t) THEN "TxNotWritable"
    ELSE IF Len(key) = 0 THEN "KeyRequired"
    ELSE IF Len(key) > MAX_KEY_SIZE THEN "KeyTooLarge"
    ELSE IF Len(value) > MAX_VALUE_SIZE THEN "ValueTooLarge"
    ELSE IF HoldsBucket(TxRootInodes(f, t), key) THEN "IncompatibleValue"
    ELSE "Ok"

\* a put that writes the inode before it looks for a sub-bucket under the key
BucketPutThenCheck(f, t, key, value) ==
    IF PutError(f, t, key, value) \notin {"Ok", "IncompatibleValue"}
    THEN [panicked |-> FALSE, error |-> PutError(f, t, key, value), tx |-> t]
    ELSE LET r == NodePut(TxNode(f, t), key, key, value, 0, 0)
         IN  [panicked |-> r.panicked, error |-> PutError(f, t, key, value),
              tx |-> [t EXCEPT !.node = <<r.node>>]]

\* Bucket::put: the checks, then Node::put on the materialised leaf
BucketPut(f, t, key, value) ==
    IF PutError(f, t, key, value) # "Ok"
    THEN [panicked |-> FALSE, error |-> PutError(f, t, key, value), tx |-> t]
    ELSE LET r == NodePut(TxNode(f, t), key, key, value, 0, 0)
         IN  [panicked |-> r.panicked, error |-> "Ok", tx |-> [t EXCEPT !.node = <<r.node>>]]

\* the checks of Bucket::delete and Cursor::delete
DeleteError(f, t, key) ==
    IF t.state = "none" THEN "TxClosed"
    ELSE IF ~IsWriter(t) THEN "TxNotWritable"
    ELSE IF HoldsBucket(TxRootInodes(f, t), key) THEN "IncompatibleValue"
    ELSE "Ok"

\* Bucket::delete: the checks, then Node::del on the materialised leaf
BucketDelete(f, t, key) ==
    IF DeleteError(f, t, key) # "Ok" THEN [error |-> DeleteError(f, t, key), tx |-> t]
    ELSE [error |-> "Ok", tx |-> [t EXCEPT !.node = <<NodeDel(TxNode(f, t), key)>>]]

\* Cursor::delete on the key under the cursor
CursorDelete(f, t, key) == BucketDelete(f, t, key)

\* commit steps 2 and 3: spill the root node to a fresh page and release its old page,
\* then release the old freelist page and write the freelist to a fresh page
TxSpill(f, t, fl) ==
    LET txid == t.meta.txid
        dirty == t.node # <<>>
        n == t.node[1]
        fr1 == IF dirty THEN FreelistFree(fl, txid, TxPage(f, t, n.pgid))
               ELSE [panicked |-> FALSE, f |-> fl]
        a1 == IF dirty THEN TxAllocate(t.meta, fr1.f, 1)
              ELSE [pgid |-> 0, f |-> fl, meta |-> t.meta]
        leaf == [PageDefault EXCEPT !.id = a1.pgid, !.flags = LEAF_PAGE,
                                    !.count = Len(n.inodes), !.inodes = n.inodes]
        m1 == IF dirty THEN [a1.meta EXCEPT !.root.root = a1.pgid] ELSE t.meta
        fr2 == FreelistFree(a1.f, txid, f[m1.freelist])
        a2 == TxAllocate(m1, fr2.f, 1)
        flpage == FreelistWrite(a2.f, [PageDefault EXCEPT !.id = a2.pgid])
    IN  [panicked |-> fr1.panicked \/ fr2.panicked,
         f |-> a2.f,
         tx |-> [t EXCEPT !.state = "spilled",
                          !.meta = [a2.meta EXCEPT !.freelist = a2.pgid],
                          !.pages = (IF dirty THEN {leaf} ELSE {}) \cup {flpage}]]

\* commit step 5 (RawTxApi::write): the dirty pages go to the file
TxWrite(f, t) == [i \in DOMAIN f |-> TxPage(f, t, i)]

\* commit step 6 (RawTxApi::write_meta): Meta::write into a page, the page to the file
TxWriteMeta(f, t) ==
    LET w == MetaWrite(t.meta, PageDefault)
    IN  [panicked |-> w.panicked, meta |-> w.self, id |-> w.page.id,
         file |-> IF w.panicked THEN f ELSE [f EXCEPT ![w.page.id] = w.page]]

\* the end of a write transaction: the handle without the writer
DbRemoveRwTx(d) == [d EXCEPT !.rwlock = {}, !.rwtx = {}]

\* rollback of a writer: its pending pages are dropped and the freelist is reloaded
\* from the freelist page of the authoritative meta
DbRollbackRwTx(d, f, t) ==
    DbRemoveRwTx([d EXCEPT !.freelist[1] =
        FreelistReload(FreelistRollback(@, t.meta.txid), f[DbMeta(d).meta.freelist])])

\* rollback of a reader: unregister it, promote what it alone was blocking
DbRemoveTx(d, t) ==
    [d EXCEPT !.txs[t.meta.txid] = Max(@ - 1, 0),
              !.freelist[1] = FreelistReleaseRange(
                    FreelistRemoveReadonlyTxid(@, t.meta.txid), 0, DbMeta(d).meta.txid)]

(***************************************************************************)
(* The file.                                                               *)
(***************************************************************************)
\* the meta of a new file (pages 0 and 1): freelist at page 2, root leaf at page 3
MetaInit(i) ==
    [magic |-> MAGIC, version |-> VERSION, page_size |-> DEFAULT_PAGE_SIZE, flags |-> 0,
     root |-> [root |-> 3, sequence |-> 0],
     freelist |-> 2, pgid |-> 4, txid |-> i, checksum |-> ZeroSum]

\* a new file: two meta pages, an empty freelist page, an empty leaf page
FileInit ==
    [i \in PgIds |->
        IF i \in {0, 1} THEN MetaWrite(MetaInit(i), PageDefault).page
        ELSE IF i = 2 THEN FreelistWrite(FreelistNew, [PageDefault EXCEPT !.id = 2])
        ELSE IF i = 3 THEN [PageDefault EXCEPT !.id = 3, !.flags = LEAF_PAGE]
        ELSE PageDefault]

\* the file after one more committed write transaction that left the given inodes
FileWith(f, inodes) ==
    LET b == DbBeginRwTx(DbOpenFile("test.db", f), 1)
        t == [b.tx EXCEPT !.node = <<NodeOf(b.tx.meta.root.root, inodes)>>]
        sp == TxSpill(f, t, b.db.freelist[1])
    IN  TxWriteMeta(TxWrite(f, sp.tx), sp.tx).file

\* the files a database is opened on: a new file after a commit that left one key
Files == {FileWith(FileInit, <<Inode(0, 0, <<MaxKey>>, <<1>>)>>)}

(***************************************************************************)
(* State.                                                                  *)
(***************************************************************************)
VARIABLES
    file,     \* the pages of the database file
    db,       \* the database handle (RawDB)
    tx,       \* the transaction of each thread (RawTx)
    hist,     \* history: what was committed, allocated, closed
    openRes,  \* the result of the last DB::open
    meta,     \* a Meta given to validate and write
    page,     \* the page Meta::write writes into
    result,   \* the result of the last Meta::validate
    slots,    \* the meta pages written: the txid each holds, the last two txids written
    cur,      \* a cursor over a bucket: its position stack, the entry it returned last
    call,     \* the last DB::view or DB::update: what f did and returned, what came back
    req       \* a Bucket::put or delete as called: the bucket, the key, the outcome

vars == <<file, db, tx, hist, openRes, meta, page, result, slots, cur, call, req>>
dbVars == <<file, db, tx, hist, openRes>>
metaVars == <<meta, page, result, slots>>
auxVars == <<cur, call, req>>

SlotsNew == [at |-> [i \in 0..1 |-> -1], prev |-> -1, last |-> -1]

OpenNone == [path |-> "", result |-> "none"]

MetaIdle == meta = MetaDefault /\ page = PageDefault /\ result = "none" /\ slots = SlotsNew

\* no cursor, no managed call, no put under test
CursorNone == [state |-> "none"]
CallNone == [op |-> "none"]
ReqNone == [op |-> "none"]
AuxIdle == cur = CursorNone /\ call = CallNone /\ req = ReqNone

HistNew(f) ==
    [map |-> ViewOf(f[MetaSelect(f[0].meta, f[1].meta).meta.root.root].inodes),
     view |-> ViewOf(f[MetaSelect(f[0].meta, f[1].meta).meta.root.root].inodes),
     txid |-> MetaSelect(f[0].meta, f[1].meta).meta.txid,
     allocs |-> {}, freedBy |-> [pg \in PgIds |-> 0], shared |-> {},
     closed |-> "no", midCommit |-> FALSE, reopened |-> FALSE, rolled |-> 0,
     called |-> {}]

\* the txids of the open read transactions
OpenReaders == {tx[p].meta.txid : p \in {q \in Procs : tx[q].state = "reader"}}

\* freedBy after the freelist went from fl to fl2: the txid that released each promoted page
Promoted(fb, fl, fl2) ==
    [pg \in PgIds |->
        IF \E t \in DOMAIN fl.pending : pg \in fl.pending[t] /\ pg \in fl2.ids
        THEN CHOOSE t \in DOMAIN fl.pending : pg \in fl.pending[t]
        ELSE fb[pg]]

Init ==
    /\ file \in Files
    /\ db = DbOpenFile("test.db", file)
    /\ tx = [p \in Procs |-> TxNew]
    /\ hist = HistNew(file)
    /\ openRes = OpenNone
    /\ MetaIdle
    /\ AuxIdle

(***************************************************************************)
(* Transactions on an open database.                                       *)
(***************************************************************************)
CanBegin == db.opened /\ db.freelist # <<>> /\ DbMeta(db).ok

\* begin of a read transaction
BeginRead(p) ==
    /\ p \in Readers
    /\ tx[p].state = "none"
    /\ CanBegin
    /\ LET b == DbBeginTx(db)
       IN  /\ db' = b.db
           /\ tx' = [tx EXCEPT ![p] = [b.tx EXCEPT !.view = ViewOf(TxRootInodes(file, b.tx))]]
    /\ UNCHANGED <<file, hist, openRes>>
    /\ UNCHANGED metaVars
    /\ UNCHANGED auxVars

\* what a write transaction finds when it begins: the authoritative meta, its root
\* and freelist pages, the free ids and all the ids of the freelist
BeginSnapshot(d, f) ==
    [meta |-> DbMeta(d).meta,
     root |-> f[DbMeta(d).meta.root.root],
     freelist |-> f[DbMeta(d).meta.freelist],
     free |-> d.freelist[1].ids,
     all |-> d.freelist[1].ids \cup FreelistPendingIds(d.freelist[1])]

\* begin of a write transaction while the rwlock is held: the thread blocks on it
BeginWriteBlock(p) ==
    /\ p \in Writers
    /\ tx[p].state = "none"
    /\ CanBegin
    /\ ~RwLockFree(db)
    /\ DbMeta(db).meta.txid < MaxTx
    /\ tx' = [tx EXCEPT ![p].state = "waiting"]
    /\ UNCHANGED <<file, db, hist, openRes>>
    /\ UNCHANGED metaVars
    /\ UNCHANGED auxVars

\* begin of a write transaction: the thread, blocked before or not, takes the rwlock
BeginWrite(p) ==
    /\ p \in Writers
    /\ tx[p].state \in {"none", "waiting"}
    /\ CanBegin
    /\ RwLockFree(db)
    /\ DbMeta(db).meta.txid < MaxTx
    /\ LET b == DbBeginRwTx(db, p)
       IN  /\ db' = b.db
           /\ tx' = [tx EXCEPT ![p] =
                    [b.tx EXCEPT !.view = ViewOf(TxRootInodes(file, b.tx)),
                                 !.begin = <<BeginSnapshot(db, file)>>]]
           /\ hist' = [hist EXCEPT !.freedBy = Promoted(@, db.freelist[1], b.db.freelist[1]),
                                   !.rolled = 0]
    /\ UNCHANGED <<file, openRes>>
    /\ UNCHANGED metaVars
    /\ UNCHANGED auxVars

\* Bucket::put in the write transaction; a panic unwinds and rolls the transaction back
Put(p, key, value) ==
    /\ tx[p].state = "writer"
    /\ tx[p].ops < MaxOps
    /\ LET r == BucketPut(file, tx[p], key, value)
       IN  IF r.panicked
           THEN /\ tx' = [tx EXCEPT ![p] = TxNew]
                /\ db' = DbRollbackRwTx(db, file, tx[p])
           ELSE /\ tx' = [tx EXCEPT ![p] =
                         IF r.error = "Ok" THEN [r.tx EXCEPT !.view[key] = {value}, !.ops = @ + 1]
                         ELSE [r.tx EXCEPT !.ops = @ + 1]]
                /\ db' = db
    /\ UNCHANGED <<file, hist, openRes>>
    /\ UNCHANGED metaVars
    /\ UNCHANGED auxVars

\* Bucket::delete in the write transaction
Delete(p, key) ==
    /\ tx[p].state = "writer"
    /\ tx[p].ops < MaxOps
    /\ tx' = [tx EXCEPT ![p] =
                IF BucketDelete(file, tx[p], key).error = "Ok"
                THEN [BucketDelete(file, tx[p], key).tx EXCEPT !.view[key] = {}, !.ops = @ + 1]
                ELSE [tx[p] EXCEPT !.ops = @ + 1]]
    /\ UNCHANGED <<file, db, hist, openRes>>
    /\ UNCHANGED metaVars
    /\ UNCHANGED auxVars

\* commit, steps 1 to 3: spill and the freelist, in memory
CommitSpill(p) ==
    /\ tx[p].state = "writer"
    /\ LET sp == TxSpill(file, tx[p], db.freelist[1])
       IN  /\ ~sp.panicked
           /\ sp.tx.meta.pgid <= MaxPgid + 1
           /\ tx' = [tx EXCEPT ![p] = sp.tx]
           /\ db' = [db EXCEPT !.freelist[1] = sp.f]
           /\ hist' = [hist EXCEPT !.allocs =
                 {[pgid |-> pg.id, by |-> hist.freedBy[pg.id], readers |-> OpenReaders] :
                      pg \in {q \in sp.tx.pages : q.id < tx[p].meta.pgid}}]
    /\ UNCHANGED <<file, openRes>>
    /\ UNCHANGED metaVars
    /\ UNCHANGED auxVars

\* commit, step 5: the dirty pages are written and synced
CommitWrite(p) ==
    /\ tx[p].state = "spilled"
    /\ file' = TxWrite(file, tx[p])
    /\ tx' = [tx EXCEPT ![p].state = "written"]
    /\ UNCHANGED <<db, hist, openRes>>
    /\ UNCHANGED metaVars
    /\ UNCHANGED auxVars

\* commit, step 6: the meta page is written; with no callback to invoke (step 7) the
\* transaction is over, else it goes on to invoke them
CommitMeta(p) ==
    /\ tx[p].state = "written"
    /\ LET w == TxWriteMeta(file, tx[p])
           d == IF w.id = 0 THEN [db EXCEPT !.meta0 = w.meta] ELSE [db EXCEPT !.meta1 = w.meta]
       IN  /\ ~w.panicked
           /\ file' = w.file
           /\ db' = IF tx[p].handlers = 0 THEN DbRemoveRwTx(d) ELSE d
           /\ hist' = [hist EXCEPT !.map = tx[p].view,
                                   !.view = ViewOf(TxRootInodes(file, tx[p])),
                                   !.txid = w.meta.txid,
                                   !.allocs = {},
                                   !.freedBy = [pg \in PgIds |->
                                       IF \E q \in tx[p].pages : q.id = pg THEN 0 ELSE @[pg]]]
    /\ tx' = [tx EXCEPT ![p] = IF tx[p].handlers = 0 THEN TxNew
                               ELSE [tx[p] EXCEPT !.state = "committed"]]
    /\ UNCHANGED openRes
    /\ UNCHANGED metaVars
    /\ UNCHANGED auxVars

\* TxApi::on_commit in the write transaction
OnCommit(p) ==
    /\ tx[p].state = "writer"
    /\ tx[p].handlers < MaxHandlers
    /\ tx' = [tx EXCEPT ![p] = TxOnCommit(tx[p])]
    /\ UNCHANGED <<file, db, hist, openRes>>
    /\ UNCHANGED metaVars
    /\ UNCHANGED auxVars

\* commit, step 7: the callbacks are invoked; the transaction is over
CommitCallbacks(p) ==
    /\ tx[p].state = "committed"
    /\ hist' = [hist EXCEPT !.called = TxRunHandlers(@, tx[p])]
    /\ db' = DbRemoveRwTx(db)
    /\ tx' = [tx EXCEPT ![p] = TxNew]
    /\ UNCHANGED <<file, openRes>>
    /\ UNCHANGED metaVars
    /\ UNCHANGED auxVars

\* rollback of the write transaction, also when a commit step before the meta write fails
RollbackRw(p) ==
    /\ IsWriter(tx[p])
    /\ db' = DbRollbackRwTx(db, file, tx[p])
    /\ tx' = [tx EXCEPT ![p] = TxNew]
    /\ hist' = [hist EXCEPT !.allocs = {},
                            !.rolled = IF tx[p].pages # {} THEN tx[p].meta.txid ELSE 0,
                            !.called = TxDropHandlers(@, tx[p])]
    /\ UNCHANGED <<file, openRes>>
    /\ UNCHANGED metaVars
    /\ UNCHANGED auxVars

\* rollback of a read transaction
Rollback(p) ==
    /\ tx[p].state = "reader"
    /\ db' = DbRemoveTx(db, tx[p])
    /\ hist' = [hist EXCEPT
            !.freedBy = Promoted(@, db.freelist[1], DbRemoveTx(db, tx[p]).freelist[1]),
            !.shared = IF \E q \in Procs \ {p} : /\ tx[q].state = "reader"
                                                  /\ tx[q].meta.txid = tx[p].meta.txid
                       THEN @ \cup {tx[p].meta.txid}
                       ELSE @ \ {tx[p].meta.txid}]
    /\ tx' = [tx EXCEPT ![p] = TxNew]
    /\ UNCHANGED <<file, openRes>>
    /\ UNCHANGED metaVars
    /\ UNCHANGED auxVars

\* DbApi::close: waits for the open transactions, then releases the handle
Close ==
    /\ db.opened
    /\ hist.closed = "no"
    /\ \A p \in Procs : tx[p].state = "none"
    /\ db' = [RawDBDefault EXCEPT !.opened = FALSE]
    /\ hist' = [hist EXCEPT !.closed = "clean"]
    /\ UNCHANGED <<file, tx, openRes>>
    /\ UNCHANGED metaVars
    /\ UNCHANGED auxVars

\* the process dies: every transaction and the handle are gone, the file stays
Crash ==
    /\ db.opened
    /\ hist.closed = "no"
    /\ db' = [RawDBDefault EXCEPT !.opened = FALSE]
    /\ tx' = [p \in Procs |-> TxNew]
    /\ hist' = [hist EXCEPT !.closed = "crash", !.allocs = {}, !.shared = {}, !.rolled = 0,
                            !.midCommit = \E p \in Procs : IsWriter(tx[p])]
    /\ UNCHANGED <<file, openRes>>
    /\ UNCHANGED metaVars
    /\ UNCHANGED auxVars

\* DB::open on the file after a close or a crash
Reopen ==
    /\ ~db.opened
    /\ LET r == Open("test.db")
       IN  /\ db' = r.db
           /\ openRes' = [path |-> "test.db", result |-> IF r.ok THEN "Ok" ELSE "Err"]
    /\ hist' = [hist EXCEPT !.reopened = TRUE]
    /\ UNCHANGED <<file, tx>>
    /\ UNCHANGED metaVars
    /\ UNCHANGED auxVars

Next ==
    \/ \E p \in Procs : BeginRead(p)
    \/ \E p \in Procs : BeginWriteBlock(p)
    \/ \E p \in Procs : BeginWrite(p)
    \/ \E p \in Procs, k \in Keys, v \in Vals : Put(p, k, v)
    \/ \E p \in Procs, k \in Keys : Delete(p, k)
    \/ \E p \in Procs : CommitSpill(p)
    \/ \E p \in Procs : CommitWrite(p)
    \/ \E p \in Procs : CommitMeta(p)
    \/ \E p \in Procs : RollbackRw(p)
    \/ \E p \in Procs : Rollback(p)
    \/ Close
    \/ Crash
    \/ Reopen

Spec == Init /\ [][Next]_vars

\* write transactions that register post-commit callbacks, beside read transactions
NextCallbacks ==
    \/ \E p \in Procs : BeginRead(p)
    \/ \E p \in Procs : BeginWrite(p)
    \/ \E p \in Procs : OnCommit(p)
    \/ \E p \in Procs, k \in Keys, v \in Vals : Put(p, k, v)
    \/ \E p \in Procs : CommitSpill(p)
    \/ \E p \in Procs : CommitWrite(p)
    \/ \E p \in Procs : CommitMeta(p)
    \/ \E p \in Procs : CommitCallbacks(p)
    \/ \E p \in Procs : RollbackRw(p)
    \/ \E p \in Procs : Rollback(p)

SpecCallbacks == Init /\ [][NextCallbacks]_vars

(***************************************************************************)
(* Meta::validate and Meta::write on their own: the metas they are given.  *)
(***************************************************************************)
\* the handle and the file are not used
DbIdle ==
    /\ file = FileInit
    /\ db = [RawDBDefault EXCEPT !.opened = FALSE]
    /\ tx = [p \in Procs |-> TxNew]
    /\ hist = HistNew(FileInit)
    /\ openRes = OpenNone

\* a checksum that is no sum of the metas of the model
BadSum == <<1, 0, 0, 0>>

\* metas as a caller may hold them: right and wrong magic and version, a root and a
\* freelist below and above the high water mark, a right, a zero and a wrong checksum
MetaInputs ==
    LET plain == [magic : {MAGIC, <<0, 0, 0, 0>>},
                  version : {VERSION, VERSION + 1},
                  page_size : {DEFAULT_PAGE_SIZE},
                  flags : {0},
                  root : [root : {3}, sequence : {0}],
                  freelist : {2, MaxMetaPgid, PGID_NO_FREELIST},
                  pgid : 3..MaxMetaPgid,
                  txid : 0..MaxMetaTxid,
                  checksum : {ZeroSum}]
    IN  UNION {{m, [m EXCEPT !.checksum = sum64(m)], [m EXCEPT !.checksum = BadSum]} :
                  m \in plain}

InitMeta ==
    /\ DbIdle
    /\ meta \in MetaInputs
    /\ page = PageDefault
    /\ result = "none"
    /\ slots = SlotsNew
    /\ AuxIdle

\* Meta::validate
Validate ==
    /\ result' = validate(meta)
    /\ UNCHANGED <<meta, page, slots>>
    /\ UNCHANGED dbVars
    /\ UNCHANGED auxVars

\* Meta::write into the page, and the page to its place among the meta pages
Write ==
    /\ LET w == MetaWrite(meta, page)
       IN  IF w.panicked
           THEN /\ result' = "panic"
                /\ UNCHANGED <<meta, page, slots>>
           ELSE /\ result' = "none"
                /\ meta' = w.self
                /\ page' = w.page
                /\ slots' = [at |-> [i \in DOMAIN slots.at |->
                                        IF i = w.page.id THEN meta.txid ELSE slots.at[i]],
                             prev |-> slots.last, last |-> meta.txid]
    /\ UNCHANGED dbVars
    /\ UNCHANGED auxVars

\* Meta::inc_txid: the meta of the next write transaction
IncTxid ==
    /\ meta.txid < MaxMetaTxid
    /\ meta' = inc_txid(meta)
    /\ result' = "none"
    /\ UNCHANGED <<page, slots>>
    /\ UNCHANGED dbVars
    /\ UNCHANGED auxVars

NextMeta == Validate \/ Write \/ IncTxid

SpecMeta == InitMeta /\ [][NextMeta]_vars

(***************************************************************************)
(* DB::open on its own: the files and paths it is given.                   *)
(***************************************************************************)
\* a meta page as it may be found on disk
DamagedPage(p, how) ==
    IF how = "magic" THEN [p EXCEPT !.meta.magic = <<0, 0, 0, 0>>]
    ELSE IF how = "version" THEN [p EXCEPT !.meta.version = VERSION + 1]
    ELSE IF how = "checksum" THEN [p EXCEPT !.meta.checksum = BadSum]
    ELSE IF how = "zero" THEN PageDefault
    ELSE p

Damages == {"none", "magic", "version", "checksum", "zero"}

\* the file after the commits of the transactions up to txid n
RECURSIVE FileAt(_)
FileAt(n) ==
    IF n <= 1 THEN FileInit
    ELSE FileWith(FileAt(n - 1), <<Inode(0, 0, <<MaxKey>>, <<((n - 1) % MaxVal) + 1>>)>>)

OpenFiles ==
    {[i \in PgIds |-> IF i = 0 THEN DamagedPage(FileAt(n)[0], h0)
                      ELSE IF i = 1 THEN DamagedPage(FileAt(n)[1], h1)
                      ELSE FileAt(n)[i]] :
        n \in 1..MaxMetaTxid, h0 \in Damages, h1 \in Damages}

InitOpen ==
    /\ file \in OpenFiles
    /\ db = [RawDBDefault EXCEPT !.opened = FALSE]
    /\ tx = [p \in Procs |-> TxNew]
    /\ hist = HistNew(FileInit)
    /\ openRes = OpenNone
    /\ MetaIdle
    /\ AuxIdle

\* DB::open of the file at a path
OpenDb(path) ==
    /\ openRes.result = "none"
    /\ LET r == Open(path)
       IN  /\ db' = r.db
           /\ openRes' = [path |-> path, result |-> IF r.ok THEN "Ok" ELSE "Err"]
    /\ UNCHANGED <<file, tx, hist>>
    /\ UNCHANGED metaVars
    /\ UNCHANGED auxVars

NextOpen == \E path \in {"test.db", "data.db"} : OpenDb(path)

SpecOpen == InitOpen /\ [][NextOpen]_vars

(***************************************************************************)
(* cursor.rs: a cursor over the pages of one bucket.                       *)
(***************************************************************************)
\* Option values: None is the empty sequence, Some(x) is <<x>>
RawEntry(e) == [key |-> e.key, value |-> e.value, flags |-> e.flags]

\* the page or node of a page id of the bucket
page_node(tree, pgid) == tree[pgid]

\* ElemRef: a page or node of the bucket and an index into it, counted from 0
ElemRef(pgid, index) == [pgid |-> pgid, index |-> index]

\* ElemRef::is_leaf
ElemIsLeaf(tree, r) == page_node(tree, r.pgid).leaf

\* ElemRef::count
ElemCount(tree, r) == Len(page_node(tree, r.pgid).inodes)

\* count() - 1 in u32: with count 0 it panics where overflow is checked (a debug
\* build) and wraps to 2^32 - 1 where it is not (a release build); wrapped stands
\* for that number, which every index of a page is below
CountMinusOne(tree, r, build) ==
    IF ElemCount(tree, r) > 0
    THEN [panicked |-> FALSE, n |-> ElemCount(tree, r) - 1, wrapped |-> FALSE]
    ELSE IF build = "debug" THEN [panicked |-> TRUE, n |-> 0, wrapped |-> FALSE]
    ELSE [panicked |-> FALSE, n |-> 0, wrapped |-> TRUE]

\* RawCursor::key_value: the entry under the top of the stack, None past the end
key_value(tree, stack) ==
    IF stack = <<>> THEN <<>>
    ELSE LET r == stack[Len(stack)]
         IN  IF ElemCount(tree, r) = 0 \/ r.index >= ElemCount(tree, r) THEN <<>>
             ELSE <<RawEntry(page_node(tree, r.pgid).inodes[r.index + 1])>>

\* RawCursor::go_to_first_element_on_the_stack. The stack is a RefCell: the call
\* borrows it mutably at the top of its loop, so it panics when the caller still
\* holds a borrow (borrowed), and on a branch, where it borrows again to push the
\* child while the borrow of its own loop is alive.
go_to_first_element_on_the_stack(tree, stack, borrowed) ==
    IF borrowed \/ stack = <<>> THEN [panicked |-> TRUE, stack |-> stack]
    ELSE IF ElemIsLeaf(tree, stack[Len(stack)]) THEN [panicked |-> FALSE, stack |-> stack]
    ELSE [panicked |-> TRUE, stack |-> stack]

\* the loop of raw_next from frame d of the stack down to the root: the first frame
\* whose index is below count() - 1
RECURSIVE NextFrame(_, _, _, _)
NextFrame(tree, stack, d, build) ==
    IF d = 0 THEN [panicked |-> FALSE, depth |-> 0]
    ELSE LET c == CountMinusOne(tree, stack[d], build)
         IN  IF c.panicked THEN [panicked |-> TRUE, depth |-> d]
             ELSE IF c.wrapped \/ stack[d].index < c.n THEN [panicked |-> FALSE, depth |-> d]
             ELSE NextFrame(tree, stack, d - 1, build)

\* a raw_next that forgets its position when it finds the end
raw_next_resets(tree, stack, build) ==
    [panicked |-> FALSE, stack |-> <<>>, entry |-> <<>>]

\* RawCursor::raw_next: stack_exhausted is depth = 0; else the index of the frame
\* found goes up by one, the top frame is popped, the stack is truncated to the frame
\* found, and go_to_first_element_on_the_stack is called with the stack still borrowed
raw_next(tree, stack, build) ==
    LET fr == NextFrame(tree, stack, Len(stack), build)
    IN  IF fr.panicked THEN [panicked |-> TRUE, stack |-> stack, entry |-> <<>>]
        ELSE IF fr.depth = 0 THEN [panicked |-> FALSE, stack |-> stack, entry |-> <<>>]
        ELSE LET moved == [stack EXCEPT ![fr.depth].index = @ + 1]
                 popped == SubSeq(moved, 1, Len(moved) - 1)
                 cut == SubSeq(popped, 1, Min(fr.depth, Len(popped)))
                 g == go_to_first_element_on_the_stack(tree, cut, TRUE)
             IN  IF g.panicked THEN [panicked |-> TRUE, stack |-> g.stack, entry |-> <<>>]
                 ELSE [panicked |-> FALSE, stack |-> g.stack,
                       entry |-> key_value(tree, g.stack)]

\* RawCursor::raw_first
raw_first(tree, root, build) ==
    LET g == go_to_first_element_on_the_stack(tree, <<ElemRef(root, 0)>>, FALSE)
        n == raw_next(tree, g.stack, build)
    IN  IF g.panicked THEN [panicked |-> TRUE, stack |-> g.stack, entry |-> <<>>]
        ELSE IF ElemCount(tree, g.stack[Len(g.stack)]) = 0
        THEN [panicked |-> n.panicked, stack |-> n.stack,
              entry |-> IF n.panicked THEN <<>> ELSE key_value(tree, n.stack)]
        ELSE [panicked |-> FALSE, stack |-> g.stack, entry |-> key_value(tree, g.stack)]

\* RawCursor::search: from the page down to a leaf; on a branch the last inode whose
\* key is not above the key sought (the first inode when there is none), on the leaf
\* the first inode whose key is not below it, which may be past the end
RECURSIVE search(_, _, _, _)
search(tree, key, pgid, stack) ==
    LET n == page_node(tree, pgid)
        found == binary_search_by(n.inodes, key)
        index == IF n.leaf \/ found.ok \/ found.index = 0 THEN found.index
                 ELSE found.index - 1
    IN  IF n.leaf THEN Append(stack, ElemRef(pgid, index))
        ELSE search(tree, key, n.inodes[index + 1].pgid, Append(stack, ElemRef(pgid, index)))

\* RawCursor::raw_seek
raw_seek(tree, root, seek) ==
    LET stack == search(tree, seek, root, <<>>)
    IN  [panicked |-> FALSE, stack |-> stack, entry |-> key_value(tree, stack)]

\* the descent of raw_last: from the top of the stack always to the last child
RECURSIVE GoToLast(_, _)
GoToLast(tree, stack) ==
    LET r == stack[Len(stack)]
        n == page_node(tree, r.pgid)
    IN  IF n.leaf THEN stack
        ELSE LET child == n.inodes[r.index + 1].pgid
             IN  GoToLast(tree, Append(stack,
                     ElemRef(child, Max(ElemCount(tree, ElemRef(child, 0)) - 1, 0))))

\* RawCursor::raw_last
raw_last(tree, root) ==
    LET stack == GoToLast(tree,
                    <<ElemRef(root, Max(ElemCount(tree, ElemRef(root, 0)) - 1, 0))>>)
    IN  [panicked |-> FALSE, stack |-> stack, entry |-> key_value(tree, stack)]

\* the loop of raw_prev: the frames at index 0 are dropped from the top, the index of
\* the first frame that can move goes down by one
RECURSIVE PrevFrame(_)
PrevFrame(stack) ==
    IF stack = <<>> THEN <<>>
    ELSE IF stack[Len(stack)].index > 0
    THEN [stack EXCEPT ![Len(stack)].index = @ - 1]
    ELSE PrevFrame(SubSeq(stack, 1, Len(stack) - 1))

\* RawCursor::raw_prev
raw_prev(tree, stack) ==
    LET moved == PrevFrame(stack)
    IN  IF moved = <<>> THEN [panicked |-> FALSE, stack |-> <<>>, entry |-> <<>>]
        ELSE IF ElemIsLeaf(tree, moved[Len(moved)])
        THEN [panicked |-> FALSE, stack |-> moved, entry |-> key_value(tree, moved)]
        ELSE LET child == page_node(tree, moved[Len(moved)].pgid)
                              .inodes[moved[Len(moved)].index + 1].pgid
                 down == GoToLast(tree, Append(moved,
                            ElemRef(child, Max(ElemCount(tree, ElemRef(child, 0)) - 1, 0))))
             IN  [panicked |-> FALSE, stack |-> down, entry |-> key_value(tree, down)]

\* an entry that gives the value of a sub-bucket and none of a plain key
CursorEntryInverted(raw) ==
    IF raw = <<>> THEN <<>>
    ELSE IF raw[1].flags % (2 * BUCKET_LEAF_FLAG) >= BUCKET_LEAF_FLAG
    THEN <<[key |-> raw[1].key, value |-> <<raw[1].value>>]>>
    ELSE <<[key |-> raw[1].key, value |-> <<>>]>>

\* the match of Cursor::first, last, next, prev and seek on the raw entry: Entry with
\* value None when flags & BUCKET_LEAF_FLAG is not 0, else with Some(value)
CursorEntry(raw) ==
    IF raw = <<>> THEN <<>>
    ELSE IF raw[1].flags % (2 * BUCKET_LEAF_FLAG) >= BUCKET_LEAF_FLAG
    THEN <<[key |-> raw[1].key, value |-> <<>>]>>
    ELSE <<[key |-> raw[1].key, value |-> <<raw[1].value>>]>>

\* the keys of the bucket under the cursor: every second key, so that a seek can fall
\* between two keys, before the first and after the last
CursorKeys == {k \in 1..(MaxCursorKey - 1) : k % 2 = 1}

\* the key that holds a sub-bucket
CursorBucketKey == SetMin(CursorKeys \ {SetMin(CursorKeys)})

\* the leaf inode of a key: a sub-bucket or a plain value
CursorInode(k) ==
    Inode(IF k = CursorBucketKey THEN BUCKET_LEAF_FLAG ELSE 0, 0, <<k>>, <<k>>)

CursorLeaf(ks) ==
    [leaf |-> TRUE, inodes |-> [i \in 1..Len(SortedSeq(ks)) |-> CursorInode(SortedSeq(ks)[i])]]

\* the buckets a cursor is opened on: an empty root leaf, a root leaf with one key, a
\* root leaf with every key, a root branch over two leaves
CursorTrees ==
    LET low == {k \in CursorKeys : 2 * Cardinality({j \in CursorKeys : j < k})
                                        < Cardinality(CursorKeys)}
        high == CursorKeys \ low
        none == CursorLeaf({})
    IN  {[root |-> 2, pages |-> [i \in 2..4 |-> none]],
         [root |-> 2, pages |-> [i \in 2..4 |->
                                    IF i = 2 THEN CursorLeaf({SetMin(CursorKeys)}) ELSE none]],
         [root |-> 2, pages |-> [i \in 2..4 |->
                                    IF i = 2 THEN CursorLeaf(CursorKeys) ELSE none]],
         [root |-> 4, pages |-> [i \in 2..4 |->
               IF i = 2 THEN CursorLeaf(low)
               ELSE IF i = 3 THEN CursorLeaf(high)
               ELSE [leaf |-> FALSE,
                     inodes |-> <<Inode(0, 2, <<SetMin(low)>>, <<>>),
                                  Inode(0, 3, <<SetMin(high)>>, <<>>)>>]]]}

\* a cursor as Bucket::cursor gives it: no position yet
CursorOpen(t, build) ==
    [state |-> "open", tree |-> t.pages, root |-> t.root, build |-> build,
     stack |-> <<>>, res |-> <<>>, last |-> "none", before |-> <<>>,
     mode |-> "none", seek |-> <<>>, seen |-> <<>>]

InitCursor ==
    /\ DbIdle
    /\ MetaIdle
    /\ call = CallNone
    /\ req = ReqNone
    /\ cur \in {CursorOpen(t, b) : t \in CursorTrees, b \in {"debug", "release"}}

\* the cursor after a movement op with outcome r, begun by mode (kept when "")
CursorMoved(op, mode, key, r) ==
    LET res == IF r.panicked THEN <<>> ELSE CursorEntry(r.entry)
        got == IF res = <<>> THEN <<>> ELSE <<res[1].key>>
    IN  [cur EXCEPT !.state = IF r.panicked THEN "panicked" ELSE "open",
                    !.stack = r.stack, !.res = res, !.last = op, !.before = cur.stack,
                    !.mode = IF mode = "" THEN @ ELSE mode,
                    !.seek = IF mode = "" THEN @ ELSE key,
                    !.seen = IF mode = "" THEN @ \o got ELSE got]

\* Cursor::first
First ==
    /\ cur.state = "open"
    /\ cur' = CursorMoved("first", "first", <<>>, raw_first(cur.tree, cur.root, cur.build))
    /\ UNCHANGED <<dbVars, metaVars, call, req>>

\* Cursor::last
Last ==
    /\ cur.state = "open"
    /\ cur' = CursorMoved("last", "last", <<>>, raw_last(cur.tree, cur.root))
    /\ UNCHANGED <<dbVars, metaVars, call, req>>

\* Cursor::next
CursorNext ==
    /\ cur.state = "open"
    /\ cur.last # "none"
    /\ cur' = CursorMoved("next", "", <<>>, raw_next(cur.tree, cur.stack, cur.build))
    /\ UNCHANGED <<dbVars, metaVars, call, req>>

\* Cursor::prev
CursorPrev ==
    /\ cur.state = "open"
    /\ cur.last # "none"
    /\ cur' = CursorMoved("prev", "prev", <<>>, raw_prev(cur.tree, cur.stack))
    /\ UNCHANGED <<dbVars, metaVars, call, req>>

\* Cursor::seek
Seek(k) ==
    /\ cur.state = "open"
    /\ cur' = CursorMoved("seek", "seek", k, raw_seek(cur.tree, cur.root, k))
    /\ UNCHANGED <<dbVars, metaVars, call, req>>

NextCursor ==
    \/ First
    \/ Last
    \/ CursorNext
    \/ CursorPrev
    \/ \E k \in 1..MaxCursorKey : Seek(<<k>>)

SpecCursor == InitCursor /\ [][NextCursor]_vars

\* the map a read transaction begun now would see
AuthoritativeView == ViewOf(file[DbMeta(db).meta.root.root].inodes)

(***************************************************************************)
(* db.rs: DB::view and DB::update, the managed transactions.               *)
(***************************************************************************)
\* the closures given to view and update: at most one bucket operation, then a result
ManagedOps ==
    {<<>>} \cup {<<[op |-> "put", key |-> k, value |-> v]>> : k \in Keys, v \in Vals}
           \cup {<<[op |-> "delete", key |-> k]>> : k \in Keys}

ManagedResults == {"Ok", "Invalid", "TxClosed"}

\* f(tx) on the file fi: the transaction after the operations of the closure f, and
\* what f returns
RunF(fi, t, ops, res) ==
    IF ops = <<>> THEN [panicked |-> FALSE, tx |-> t, result |-> res]
    ELSE IF ops[1].op = "put"
    THEN LET r == BucketPut(fi, t, ops[1].key, ops[1].value)
         IN  [panicked |-> r.panicked, tx |-> r.tx, result |-> res]
    ELSE [panicked |-> FALSE, tx |-> BucketDelete(fi, t, ops[1].key).tx, result |-> res]

\* the map f leaves when its operations do what they say
ExpectF(view, ops) ==
    IF ops = <<>> THEN view
    ELSE IF ops[1].op = "put" THEN [view EXCEPT ![ops[1].key] = {ops[1].value}]
    ELSE [view EXCEPT ![ops[1].key] = {}]

\* a view that returns Ok whatever f returns
DbViewOk(d, fi, res) == [db |-> DbBeginTx(d).db, ret |-> "Ok"]

\* DB::view: begin_tx()?, then the result of f(tx) is the result of view; the Tx was
\* moved into f and nothing ends it
DbView(d, fi, res) ==
    LET b == DbBeginTx(d)
        r == RunF(fi, b.tx, <<>>, res)
    IN  [db |-> b.db, ret |-> r.result]

\* DB::update: begin_tx()?, f(tx), then Ok(()) or Err(e) as f returned; the calls of
\* commit and rollback are commented out, so the transaction stays as f left it
DbUpdate(d, fi, p, ops, res) ==
    LET b == DbBeginRwTx(d, p)
        r == RunF(fi, b.tx, ops, res)
    IN  [db |-> b.db, tx |-> r.tx,
         ret |-> IF r.panicked THEN "panic" ELSE r.result]

InitManaged ==
    /\ file \in Files
    /\ db = DbOpenFile("test.db", file)
    /\ tx = [p \in Procs |-> TxNew]
    /\ hist = HistNew(file)
    /\ openRes = OpenNone
    /\ MetaIdle
    /\ cur = CursorNone
    /\ req = ReqNone
    /\ call = CallNone

\* DB::view with a closure that returns res
View(res) ==
    /\ CanBegin
    /\ db.txs[DbMeta(db).meta.txid] < NumProcs
    /\ LET r == DbView(db, file, res)
       IN  /\ db' = r.db
           /\ call' = [op |-> "view", ops |-> <<>>, fres |-> res, ret |-> r.ret,
                       before |-> AuthoritativeView, expect |-> AuthoritativeView]
    /\ UNCHANGED <<file, tx, hist, openRes, metaVars, cur, req>>

\* DB::update by thread p with a closure that does ops and returns res
Update(p, ops, res) ==
    /\ p \in Writers
    /\ CanBegin
    /\ RwLockFree(db)
    /\ DbMeta(db).meta.txid < MaxTx
    /\ LET r == DbUpdate(db, file, p, ops, res)
       IN  /\ db' = r.db
           /\ call' = [op |-> "update", ops |-> ops,
                       fres |-> IF r.ret = "panic" THEN "panic" ELSE res, ret |-> r.ret,
                       before |-> AuthoritativeView,
                       expect |-> ExpectF(AuthoritativeView, ops)]
    /\ UNCHANGED <<file, tx, hist, openRes, metaVars, cur, req>>

NextManaged ==
    \/ \E res \in ManagedResults : View(res)
    \/ \E p \in Procs, ops \in ManagedOps, res \in ManagedResults : Update(p, ops, res)
    \/ \E p \in Procs : BeginRead(p)
    \/ \E p \in Procs : Rollback(p)

SpecManaged == InitManaged /\ [][NextManaged]_vars

(***************************************************************************)
(* bucket.rs: Bucket::put, Bucket::delete and Cursor::delete as they are   *)
(* called: on a writable or a read-only transaction, with any key.         *)
(***************************************************************************)
\* a key of n bytes
KeyOfLen(n) == [i \in 1..n |-> 1]

\* the keys given to put and delete: none, short ones, the longest, one byte more
PutKeys == {<<>>, <<1>>, <<2>>, <<3>>, KeyOfLen(MAX_KEY_SIZE), KeyOfLen(MAX_KEY_SIZE + 1)}

\* the root leaves of the bucket: empty, a plain key, a key that holds a sub-bucket
PutLeaves ==
    {<<>>, <<Inode(0, 0, <<2>>, <<1>>)>>, <<Inode(BUCKET_LEAF_FLAG, 0, <<2>>, <<1>>)>>}

\* a bucket of an open transaction, nothing called yet
ReqOpen(state, inodes) ==
    LET t == [TxNew EXCEPT !.state = state, !.node = <<NodeOf(3, inodes)>>]
    IN  [op |-> "open", state |-> "open", t |-> t, calls |-> 0, key |-> <<>>,
         result |-> "none", before |-> t]

InitPut ==
    /\ DbIdle
    /\ MetaIdle
    /\ cur = CursorNone
    /\ call = CallNone
    /\ req \in {ReqOpen(st, l) : st \in {"writer", "reader"}, l \in PutLeaves}

\* the request after a call: a panic ends it, an error or Ok leaves it open
ReqAfter(op, key, panicked, error, t) ==
    [op |-> op, state |-> IF panicked THEN "panicked" ELSE "open",
     t |-> IF panicked THEN req.t ELSE t, calls |-> req.calls + 1, key |-> key,
     result |-> IF panicked THEN "panic" ELSE error, before |-> req.t]

\* Bucket::put as called
PutCall(key, value) ==
    /\ req.state = "open"
    /\ req.calls < MaxPutCalls
    /\ LET r == BucketPut(file, req.t, key, value)
       IN  req' = ReqAfter("put", key, r.panicked, r.error, r.tx)
    /\ UNCHANGED <<dbVars, metaVars, cur, call>>

\* Bucket::delete as called
DeleteCall(key) ==
    /\ req.state = "open"
    /\ req.calls < MaxPutCalls
    /\ LET r == BucketDelete(file, req.t, key)
       IN  req' = ReqAfter("delete", key, FALSE, r.error, r.tx)
    /\ UNCHANGED <<dbVars, metaVars, cur, call>>

\* Cursor::delete as called, the cursor on a key of the bucket
CursorDeleteCall(key) ==
    /\ req.state = "open"
    /\ req.calls < MaxPutCalls
    /\ \E i \in 1..Len(TxRootInodes(file, req.t)) : TxRootInodes(file, req.t)[i].key = key
    /\ LET r == CursorDelete(file, req.t, key)
       IN  req' = ReqAfter("cursor delete", key, FALSE, r.error, r.tx)
    /\ UNCHANGED <<dbVars, metaVars, cur, call>>

NextPut ==
    \/ \E k \in PutKeys, v \in Vals : PutCall(k, v)
    \/ \E k \in PutKeys : DeleteCall(k)
    \/ \E k \in PutKeys : CursorDeleteCall(k)

SpecPut == InitPut /\ [][NextPut]_vars

(***************************************************************************)
(* bucket.rs: BucketStats, its add and its += (AddAssign).                 *)
(***************************************************************************)
\* the counters of BucketStats that add sums; depth is the field beside them
StatsCounters ==
    {"branch_page_n", "branch_overflow_n", "leaf_page_n", "leaf_overflow_n", "key_n",
     "branch_alloc", "branch_inuse", "leaf_alloc", "leaf_inuse",
     "bucket_n", "inline_bucket_n", "inline_bucket_inuse"}

StatsFields == StatsCounters \cup {"depth"}

\* `a += b` on i32: the sum when it is an i32; else a panic where overflow is checked
\* (a debug build) and the sum modulo 2^32 where it is not (a release build)
I32AddAssign(a, b, build) ==
    IF b >= 0 /\ a > I32_MAX - b
    THEN [panicked |-> build = "debug", v |-> I32_MIN + (a - (I32_MAX - b) - 1)]
    ELSE IF b < 0 /\ a < I32_MIN - b
    THEN [panicked |-> build = "debug", v |-> I32_MAX - ((I32_MIN - b) - a - 1)]
    ELSE [panicked |-> FALSE, v |-> a + b]

\* an add that keeps the depth of self
BucketStatsAddKeepsDepth(self, other, build) ==
    [panicked |-> \E f \in StatsCounters : I32AddAssign(self[f], other[f], build).panicked,
     self |-> [f \in StatsFields |->
                  IF f = "depth" THEN self.depth
                  ELSE I32AddAssign(self[f], other[f], build).v]]

\* BucketStats::add
BucketStatsAdd(self, other, build) ==
    [panicked |-> \E f \in StatsCounters : I32AddAssign(self[f], other[f], build).panicked,
     self |-> [f \in StatsFields |->
                  IF f = "depth" THEN (IF self.depth < other.depth THEN other.depth
                                       ELSE self.depth)
                  ELSE I32AddAssign(self[f], other[f], build).v]]

\* impl AddAssign for BucketStats
BucketStatsAddAssign(self, other, build) ==
    [panicked |-> \E f \in StatsCounters : I32AddAssign(self[f], other[f], build).panicked,
     self |-> [f \in StatsFields |->
                  IF f = "depth" THEN (IF self.depth < other.depth THEN other.depth
                                       ELSE self.depth)
                  ELSE I32AddAssign(self[f], other[f], build).v]]

\* stats whose counters are n and whose depth is d, but for the field f, which is x
StatsWith(n, d, f, x) ==
    [g \in StatsFields |-> IF g = f THEN x ELSE IF g = "depth" THEN d ELSE n]

\* the values of the field that is set apart: small ones, the largest i32, a negative one
StatsValues == {MaxStat, I32_MAX, -1}

InitStats ==
    /\ DbIdle
    /\ MetaIdle
    /\ cur = CursorNone
    /\ call = CallNone
    /\ req \in {[op |-> "stats", build |-> b, done |-> "none",
                 self |-> StatsWith(n, d, f, x), other |-> StatsWith(1, e, g, y),
                 add |-> <<>>, assign |-> <<>>] :
                    b \in {"debug", "release"}, n \in 0..1, d \in {0, MaxStat},
                    f \in StatsFields, x \in StatsValues,
                    e \in {1, MaxStat + 1}, g \in StatsFields, y \in StatsValues}

\* self.add(other) and, on a copy of self, self += other
StatsAdd ==
    /\ req.op = "stats"
    /\ req.done = "none"
    /\ req' = [req EXCEPT !.done = "add",
                          !.add = <<BucketStatsAdd(req.self, req.other, req.build)>>,
                          !.assign = <<BucketStatsAddAssign(req.self, req.other, req.build)>>]
    /\ UNCHANGED <<dbVars, metaVars, cur, call>>

NextStats == StatsAdd

SpecStats == InitStats /\ [][NextStats]_vars

(***************************************************************************)
(* node.rs: Node::put and Node::del called on a node with sorted inodes.   *)
(***************************************************************************)
NodeKeys == {<<k>> : k \in 1..MaxNodeKey}

\* the leaf inodes of a set of one-byte keys, ascending
NodeLeafInodes(ks) ==
    [i \in 1..Cardinality(ks) |-> Inode(0, 0, <<SortedSeq(ks)[i]>>, <<1>>)]

\* the keys of the inodes strictly ascend, none is empty
InodesSorted(inodes) ==
    /\ \A i \in 1..Len(inodes) : inodes[i].key # <<>>
    /\ \A i \in 1..(Len(inodes) - 1) : KeyCmp(inodes[i].key, inodes[i + 1].key) = -1

\* put(old_key, new_key) writes new_key at a place where it keeps the order: between
\* the inode before the place of old_key and the inode after it
PutKeepsOrder(inodes, old_key, new_key) ==
    LET found == binary_search_by(inodes, old_key)
        i == found.index
        next == IF found.ok THEN i + 2 ELSE i + 1
    IN  /\ i >= 1 => KeyCmp(inodes[i].key, new_key) = -1
        /\ next <= Len(inodes) => KeyCmp(new_key, inodes[next].key) = -1

InitNode ==
    /\ DbIdle
    /\ MetaIdle
    /\ cur = CursorNone
    /\ call = CallNone
    /\ req \in {[op |-> "node", last |-> "none", node |-> NodeOf(3, NodeLeafInodes(ks)),
                 before |-> NodeOf(3, NodeLeafInodes(ks)), old |-> <<>>, new |-> <<>>,
                 value |-> <<>>, panicked |-> FALSE, calls |-> 0, reordered |-> FALSE] :
                    ks \in SUBSET (1..MaxNodeKey)}

\* Node::put as called; a panic leaves the node as the call left it
NodePutCall(old_key, new_key, value) ==
    /\ req.op = "node"
    /\ req.calls < MaxNodeCalls
    /\ LET r == NodePut(req.node, old_key, new_key, value, 0, 0)
       IN  req' = [req EXCEPT !.last = "put", !.node = r.node, !.before = req.node,
                              !.old = old_key, !.new = new_key, !.value = value,
                              !.panicked = r.panicked, !.calls = @ + 1,
                              !.reordered = @ \/ ~PutKeepsOrder(req.node.inodes, old_key, new_key)]
    /\ UNCHANGED <<dbVars, metaVars, cur, call>>

\* Node::del as called
NodeDelCall(key) ==
    /\ req.op = "node"
    /\ req.calls < MaxNodeCalls
    /\ req' = [req EXCEPT !.last = "del", !.node = NodeDel(req.node, key), !.before = req.node,
                          !.old = key, !.new = key, !.value = <<>>,
                          !.panicked = FALSE, !.calls = @ + 1]
    /\ UNCHANGED <<dbVars, metaVars, cur, call>>

NextNode ==
    \/ \E old_key \in NodeKeys, new_key \in NodeKeys, v \in Vals : NodePutCall(old_key, new_key, v)
    \/ \E k \in NodeKeys : NodeDelCall(k)

SpecNode == InitNode /\ [][NextNode]_vars

(***************************************************************************)
(* node.rs: Node::size, Node::size_less_than, Node::split_index and        *)
(* Node::split_two.  Fill percentages are in hundredths.                   *)
(***************************************************************************)
\* Node::page_element_size
NodePageElementSize(n) == IF n.is_leaf THEN LEAF_PAGE_ELEMENT_SIZE ELSE BRANCH_PAGE_ELEMENT_SIZE

\* the bytes inode i (from 1) takes on a page: its element, its key and its value
InodeSize(n, i) == NodePageElementSize(n) + Len(n.inodes[i].key) + Len(n.inodes[i].value)

\* the bytes of the inodes 1 .. i
RECURSIVE InodesSize(_, _)
InodesSize(n, i) == IF i = 0 THEN 0 ELSE InodesSize(n, i - 1) + InodeSize(n, i)

\* Node::size: the page header and one page element, then every inode
NodeSize(n) == PAGE_HEADER_SIZE + NodePageElementSize(n) + InodesSize(n, Len(n.inodes))

\* Node::size_less_than: false at the first inode with which the size reaches `size`
NodeSizeLessThan(n, size) ==
    \A i \in 1..Len(n.inodes) : PAGE_HEADER_SIZE + InodesSize(n, i) < size

\* the loop of Node::split_index from i (from 0), with the size sz and the index so far
RECURSIVE SplitIndexLoop(_, _, _, _, _)
SplitIndexLoop(n, threshold, i, sz, index) ==
    IF i >= Len(n.inodes) - MIN_KEYS_PER_PAGE THEN <<index, sz>>
    ELSE IF i >= MIN_KEYS_PER_PAGE /\ sz + InodeSize(n, i + 1) > threshold THEN <<index, sz>>
    ELSE SplitIndexLoop(n, threshold, i + 1, sz + InodeSize(n, i + 1), i)

\* split_index that returns the number of inodes
NodeSplitIndexAtEnd(n, threshold) == <<Len(n.inodes), PAGE_HEADER_SIZE>>

\* Node::split_index
NodeSplitIndex(n, threshold) == SplitIndexLoop(n, threshold, 0, PAGE_HEADER_SIZE, 0)

\* the clamp of split_two
Clamp(x, min, max) == IF x < min THEN min ELSE IF x > max THEN max ELSE x

\* split_two that splits a node of exactly 2 * MIN_KEYS_PER_PAGE inodes too
NodeSplitTwoBelow(n, page_size, fill_percent) ==
    IF Len(n.inodes) < MIN_KEYS_PER_PAGE * 2 \/ NodeSizeLessThan(n, page_size)
    THEN [split |-> FALSE, index |-> 0, threshold |-> 0, a |-> n.inodes, b |-> <<>>]
    ELSE LET threshold ==
                 (page_size * Clamp(fill_percent, MIN_FILL_PERCENT, MAX_FILL_PERCENT)) \div 100
             split_index == NodeSplitIndex(n, threshold)[1]
         IN  [split |-> TRUE, index |-> split_index, threshold |-> threshold,
              a |-> SubSeq(n.inodes, 1, split_index),
              b |-> SubSeq(n.inodes, split_index + 1, Len(n.inodes))]

\* Node::split_two: the node and no other when it has at most 2 * MIN_KEYS_PER_PAGE
\* inodes or fits the page, else the inodes before split_index and those from it
NodeSplitTwo(n, page_size, fill_percent) ==
    IF Len(n.inodes) <= MIN_KEYS_PER_PAGE * 2 \/ NodeSizeLessThan(n, page_size)
    THEN [split |-> FALSE, index |-> 0, threshold |-> 0, a |-> n.inodes, b |-> <<>>]
    ELSE LET threshold ==
                 (page_size * Clamp(fill_percent, MIN_FILL_PERCENT, MAX_FILL_PERCENT)) \div 100
             split_index == NodeSplitIndex(n, threshold)[1]
         IN  [split |-> TRUE, index |-> split_index, threshold |-> threshold,
              a |-> SubSeq(n.inodes, 1, split_index),
              b |-> SubSeq(n.inodes, split_index + 1, Len(n.inodes))]

\* The nodes split_two touches, by name: the node split, the parent it has before
\* the call, the parent split_two builds and the node split_two builds.  A node is
\* live while a strong reference (Arc) to it exists; parent is the target of the
\* weak reference, "none" for WeakNode::default().
LinkNodes == {"self", "parent", "root", "next"}

LinkNode(live, is_leaf, parent, children) ==
    [live |-> live, is_leaf |-> is_leaf, parent |-> parent, children |-> children]

\* the nodes before split_two: the node split, held by its caller, with a live
\* parent that has it as child or with no parent
LinksOf(is_leaf, parented) ==
    [x \in LinkNodes |->
        IF x = "self" THEN LinkNode(TRUE, is_leaf, IF parented THEN "parent" ELSE "none", <<>>)
        ELSE IF x = "parent" THEN LinkNode(parented, FALSE, "none", IF parented THEN <<"self">> ELSE <<>>)
        ELSE LinkNode(FALSE, FALSE, "none", <<>>)]

\* Node::parent: the upgrade of the weak reference, None when the target is dropped
NodeParent(links, x) ==
    IF links[x].parent # "none" /\ links[links[x].parent].live THEN links[x].parent ELSE "none"

\* the links after split_two has split the node: without a parent a node with
\* the node as child is built, the weak reference of the node is set to it and
\* the only strong reference to it goes out of scope at the end of the block;
\* the new node is built with the is_leaf of the node, the default parent and
\* no children, and is pushed to no list of children
NodeSplitTwoLinks(links) ==
    LET built == IF NodeParent(links, "self") = "none"
                 THEN [links EXCEPT !["root"] = LinkNode(TRUE, FALSE, "none", <<"self">>),
                                    !["self"].parent = "root"]
                 ELSE links
        scoped == IF NodeParent(links, "self") = "none"
                  THEN [built EXCEPT !["root"].live = FALSE, !["root"].children = <<>>]
                  ELSE built
    IN  [scoped EXCEPT !["next"] = LinkNode(TRUE, links["self"].is_leaf, "none", <<>>)]

\* a node of count inodes with one-byte keys; the values of the inodes in big are long
SplitNode(leaf, count, big) ==
    [NodeOf(3, [i \in 1..count |->
                   Inode(0, IF leaf THEN 0 ELSE i + 3, <<i>>,
                         IF ~leaf THEN <<>>
                         ELSE [j \in 1..(IF i \in big THEN LongValue ELSE 1) |-> 1])])
     EXCEPT !.is_leaf = leaf]

SplitPageSizes == {SplitPageSize, 2 * SplitPageSize}

InitSplit ==
    /\ DbIdle
    /\ MetaIdle
    /\ cur = CursorNone
    /\ call = CallNone
    /\ req \in {[op |-> "split", last |-> "none", node |-> SplitNode(leaf, count, big),
                 arg |-> 0, fill |-> 0, size |-> 0, less |-> FALSE,
                 two |-> NodeSplitTwo(SplitNode(leaf, 0, {}), 0, 0),
                 links |-> LinksOf(leaf, parented),
                 nodes |-> <<>>, rest |-> <<>>, done |-> FALSE] :
                    leaf \in BOOLEAN, count \in 0..MaxSplitInodes,
                    big \in SUBSET (1..MaxSplitInodes), parented \in BOOLEAN}

\* Node::size as called
SizeCall ==
    /\ req.op = "split"
    /\ req.last = "none"
    /\ req' = [req EXCEPT !.last = "size", !.size = NodeSize(req.node)]
    /\ UNCHANGED <<dbVars, metaVars, cur, call>>

\* Node::size_less_than as called
SizeLessThanCall(size) ==
    /\ req.op = "split"
    /\ req.last = "none"
    /\ req' = [req EXCEPT !.last = "size_less_than", !.arg = size,
                          !.less = NodeSizeLessThan(req.node, size)]
    /\ UNCHANGED <<dbVars, metaVars, cur, call>>

\* Node::split_two as called, the bucket of the node with the fill percentage given
SplitTwoCall(page_size, fill_percent) ==
    /\ req.op = "split"
    /\ req.last = "none"
    /\ LET two == NodeSplitTwo(req.node, page_size, fill_percent)
       IN  req' = [req EXCEPT !.last = "split_two", !.arg = page_size, !.fill = fill_percent,
                              !.two = two,
                              !.links = IF two.split THEN NodeSplitTwoLinks(@) ELSE @]
    /\ UNCHANGED <<dbVars, metaVars, cur, call>>

\* Node::split as called: the loop starts with the node itself
SplitCall(page_size, fill_percent) ==
    /\ req.op = "split"
    /\ req.last = "none"
    /\ req' = [req EXCEPT !.last = "split", !.arg = page_size, !.fill = fill_percent,
                          !.nodes = <<>>, !.rest = req.node.inodes, !.done = FALSE]
    /\ UNCHANGED <<dbVars, metaVars, cur, call>>

\* one turn of the loop of Node::split: split_two of the current node, the first
\* node pushed, the loop left when there is no second node, else the second
\* node is the current node of the next turn
SplitLoop ==
    /\ req.op = "split"
    /\ req.last = "split"
    /\ ~req.done
    /\ LET two == NodeSplitTwo([req.node EXCEPT !.inodes = req.rest], req.arg, req.fill)
       IN  req' = [req EXCEPT !.nodes = Append(@, two.a), !.rest = two.b,
                              !.done = ~two.split]
    /\ UNCHANGED <<dbVars, metaVars, cur, call>>

NextSplit ==
    \/ SizeCall
    \/ \E page_size \in SplitPageSizes, fill_percent \in {5, 50, 150} :
            SplitCall(page_size, fill_percent)
    \/ SplitLoop
    \/ \E size \in {0, PAGE_HEADER_SIZE} \cup SplitPageSizes : SizeLessThanCall(size)
    \/ \E page_size \in SplitPageSizes, fill_percent \in {5, 50, 150} :
            SplitTwoCall(page_size, fill_percent)

SpecSplit == InitSplit /\ [][NextSplit]_vars

\* the thread that called Node::split goes on with its loop
SpecSplitFair == SpecSplit /\ WF_vars(SplitLoop)

(***************************************************************************)
(* node.rs Node::read and Node::write, common/inode.rs read_inode_from_page *)
(* and write_inode_to_page, over the bytes of a page.                      *)
(***************************************************************************)
RECURSIVE Concat(_)
Concat(qs) == IF qs = <<>> THEN <<>> ELSE qs[1] \o Concat(Tail(qs))

\* Page::is_branch_page: matches!, the flags are BRANCH_PAGE and nothing else
IsBranchPage(p) == p.flags = BRANCH_PAGE

\* Page::is_meta_page
IsMetaPage(p) == (p.flags \div META_PAGE) % 2 = 1

\* Page::is_freelist_page
IsFreelistPage(p) == (p.flags \div FREELIST_PAGE) % 2 = 1

\* Page::is_leaf_page
IsLeafPage(p) == (p.flags \div LEAF_PAGE) % 2 = 1

\* the bytes of the keys and values of the inodes before inode i (from 1)
RECURSIVE DataBefore(_, _)
DataBefore(inodes, i) ==
    IF i <= 1 THEN 0
    ELSE DataBefore(inodes, i - 1) + Len(inodes[i - 1].key) + Len(inodes[i - 1].value)

\* pos of element i (from 1) of a page that holds the inodes: from the element to its data
ElementPos(p, i) ==
    (IF IsLeafPage(p) THEN LEAF_PAGE_ELEMENT_SIZE ELSE BRANCH_PAGE_ELEMENT_SIZE)
        * (Len(p.inodes) - i + 1) + DataBefore(p.inodes, i)

\* the bytes of element i: LeafPageElement is flags, pos, ksize, vsize;
\* BranchPageElement is pos, ksize, pgid
ElementBytes(p, i) ==
    IF IsLeafPage(p)
    THEN U32Bytes(p.inodes[i].flags) \o U32Bytes(ElementPos(p, i))
            \o U32Bytes(Len(p.inodes[i].key)) \o U32Bytes(Len(p.inodes[i].value))
    ELSE U32Bytes(ElementPos(p, i)) \o U32Bytes(Len(p.inodes[i].key))
            \o U64Bytes(p.inodes[i].pgid)

\* the bytes of the page behind its header: the elements, then keys and values
PageData(p) ==
    Concat([i \in 1..Len(p.inodes) |-> ElementBytes(p, i)])
        \o Concat([i \in 1..Len(p.inodes) |-> p.inodes[i].key \o p.inodes[i].value])

\* the offset in the data of element i (from 1)
ElementAt(p, i) ==
    (IF IsLeafPage(p) THEN LEAF_PAGE_ELEMENT_SIZE ELSE BRANCH_PAGE_ELEMENT_SIZE) * (i - 1)

\* LeafPageElement::key: ksize bytes from the address of the field pos
LeafElementKey(p, i) ==
    SubSeq(PageData(p), ElementAt(p, i) + 5, ElementAt(p, i) + 4 + Len(p.inodes[i].key))

\* LeafPageElement::value: vsize bytes from the address of the field vsize
LeafElementValue(p, i) ==
    SubSeq(PageData(p), ElementAt(p, i) + 13, ElementAt(p, i) + 12 + Len(p.inodes[i].value))

\* BranchPageElement::key: ksize bytes from the address of the field pos
BranchElementKey(p, i) ==
    SubSeq(PageData(p), ElementAt(p, i) + 1, ElementAt(p, i) + Len(p.inodes[i].key))

\* read_inode_from_page
read_inode_from_page(p) ==
    LET inodes == [i \in 1..p.count |->
                      IF IsLeafPage(p)
                      THEN Inode(p.inodes[i].flags, 0, LeafElementKey(p, i), LeafElementValue(p, i))
                      ELSE Inode(0, p.inodes[i].pgid, BranchElementKey(p, i), <<>>)]
    IN  [panicked |-> \E i \in 1..p.count : Len(inodes[i].key) = 0, inodes |-> inodes]

\* Node::read: the assert after the inodes are set passes when the first key is empty
NodeRead(p) ==
    LET r == read_inode_from_page(p)
    IN  IF r.panicked
        THEN [panicked |-> TRUE, pgid |-> p.id, is_leaf |-> IsLeafPage(p), inodes |-> <<>>,
              key |-> <<>>]
        ELSE IF r.inodes # <<>> /\ Len(r.inodes[1].key) # 0
        THEN [panicked |-> TRUE, pgid |-> p.id, is_leaf |-> IsLeafPage(p), inodes |-> r.inodes,
              key |-> <<>>]
        ELSE [panicked |-> FALSE, pgid |-> p.id, is_leaf |-> IsLeafPage(p), inodes |-> r.inodes,
              key |-> IF r.inodes = <<>> THEN <<>> ELSE r.inodes[1].key]

\* write_inode_to_page: the first element is set, then the loop reaches todo!()
write_inode_to_page(inodes, p) ==
    [panicked |-> inodes # <<>>,
     page |-> IF inodes = <<>> \/ inodes[1].key = <<>> THEN p
              ELSE [p EXCEPT !.inodes = <<inodes[1]>>]]

\* Node::write
NodeWrite(n, p) ==
    IF p.count # 0 \/ p.flags # 0 THEN [panicked |-> TRUE, page |-> p]
    ELSE LET q == [p EXCEPT !.flags = IF n.is_leaf THEN LEAF_PAGE ELSE BRANCH_PAGE,
                            !.count = Len(n.inodes)]
         IN  IF Len(n.inodes) = 0 THEN [panicked |-> FALSE, page |-> q]
             ELSE write_inode_to_page(n.inodes, q)

\* the keys and values on the pages and in the nodes
PageKeys == {<<1>>, <<2>>, <<2, 1>>}
PageValues == {<<>>, <<7>>, <<7, 8>>}

\* the inodes of a leaf or of a branch: up to MaxPageElements, the keys ascending
PageInodes(leaf) ==
    {q \in UNION {[1..n -> {Inode(f, pg, k, v) :
                               f \in (IF leaf THEN {0, BUCKET_LEAF_FLAG} ELSE {0}),
                               pg \in (IF leaf THEN {0} ELSE {4, 5}),
                               k \in PageKeys,
                               v \in (IF leaf THEN PageValues ELSE {<<>>})}] :
                  n \in 0..MaxPageElements} : InodesSorted(q)}

\* the page that holds the inodes
PageOf(id, leaf, inodes) ==
    [PageDefault EXCEPT !.id = id, !.flags = IF leaf THEN LEAF_PAGE ELSE BRANCH_PAGE,
                        !.count = Len(inodes), !.inodes = inodes]

InitPage ==
    /\ DbIdle
    /\ MetaIdle
    /\ cur = CursorNone
    /\ call = CallNone
    /\ \E leaf \in BOOLEAN :
          req \in {[op |-> "page", last |-> "none", leaf |-> leaf, inodes |-> q,
                    page |-> PageDefault, written |-> FALSE,
                    node |-> NodeRead(PageDefault)] : q \in PageInodes(leaf)}

\* Node::read of the page that holds the inodes
ReadCall ==
    /\ req.op = "page"
    /\ req.last = "none"
    /\ req' = [req EXCEPT !.last = "read", !.page = PageOf(3, req.leaf, req.inodes),
                          !.node = NodeRead(PageOf(3, req.leaf, req.inodes))]
    /\ UNCHANGED <<dbVars, metaVars, cur, call>>

\* Node::write of the node with the inodes to a zeroed page, then Node::read of the page
WriteReadCall ==
    /\ req.op = "page"
    /\ req.last = "none"
    /\ LET n == [NodeOf(3, req.inodes) EXCEPT !.is_leaf = req.leaf]
           w == NodeWrite(n, [PageDefault EXCEPT !.id = 3])
       IN  req' = [req EXCEPT !.last = "write", !.page = w.page, !.written = ~w.panicked,
                              !.node = IF w.panicked
                                       THEN [NodeRead(PageDefault) EXCEPT !.panicked = TRUE]
                                       ELSE NodeRead(w.page)]
    /\ UNCHANGED <<dbVars, metaVars, cur, call>>

NextPage == ReadCall \/ WriteReadCall

SpecPage == InitPage /\ [][NextPage]_vars

(***************************************************************************)
(* common/page.rs Page::freelist_page_count and Page::freelist_page_ids.   *)
(* The body of a freelist page is its u64 words, in the field ids.         *)
(***************************************************************************)
\* the addresses the body of a page may have: a multiple of 8, not 0
Addresses == {8 * k : k \in 1..MaxAddressWords}

\* Page::freelist_page_count with the body of the page at address addr: the
\* count of an overflow page is taken from the pointer to the body, cast to usize
freelist_page_count(p, addr) ==
    IF ~IsFreelistPage(p) THEN [panicked |-> TRUE, idx |-> 0, count |-> 0]
    ELSE IF p.count = OVERFLOW_COUNT THEN [panicked |-> FALSE, idx |-> 1, count |-> addr]
    ELSE [panicked |-> FALSE, idx |-> 0, count |-> p.count]

\* slice::from_raw_parts(data_ptr, count): count words from the start of the
\* body; a word past the body is whatever the memory after the page holds
WordsFrom(p, count, junk) ==
    [i \in 1..count |-> IF i <= Len(p.ids) THEN p.ids[i] ELSE junk]

\* Page::freelist_page_ids: idx is not used, the slice starts at the body
freelist_page_ids(p, addr, junk) ==
    LET c == freelist_page_count(p, addr)
    IN  IF c.panicked THEN [panicked |-> TRUE, ids |-> <<>>]
        ELSE IF c.count = 0 THEN [panicked |-> FALSE, ids |-> <<>>]
        ELSE [panicked |-> FALSE, ids |-> WordsFrom(p, c.count, junk)]

\* a freelist page as written: the ids as body and their number as count, or
\* with the overflow encoding the count OVERFLOW_COUNT and the number first
FreelistPageOf(ids, overflow) ==
    [PageDefault EXCEPT !.id = 2, !.flags = FREELIST_PAGE,
                        !.count = IF overflow THEN OVERFLOW_COUNT ELSE Len(ids),
                        !.ids = IF overflow THEN <<Len(ids)>> \o ids ELSE ids]

\* the lists of ids of the pages: short ones and one of OVERFLOW_COUNT ids
FreelistPageLists ==
    UNION {[1..n -> 2..(2 + MaxFreelistIds)] : n \in 0..MaxFreelistIds}

InitFreelistPage ==
    /\ DbIdle
    /\ MetaIdle
    /\ cur = CursorNone
    /\ call = CallNone
    /\ req \in {[op |-> "freelist_page", last |-> "none", page |-> p,
                 count |-> freelist_page_count(PageDefault, 0),
                 ids |-> freelist_page_ids(PageDefault, 0, 0)] :
                    p \in {FreelistPageOf(ids, o) : ids \in FreelistPageLists, o \in BOOLEAN}
                          \cup {FreelistPageOf([i \in 1..OVERFLOW_COUNT |-> i + 1], TRUE),
                                [FreelistPageOf(<<>>, FALSE) EXCEPT !.flags = LEAF_PAGE]}}

\* Page::freelist_page_count as called
FreelistPageCountCall(addr) ==
    /\ req.op = "freelist_page"
    /\ req.last = "none"
    /\ req' = [req EXCEPT !.last = "count", !.count = freelist_page_count(req.page, addr)]
    /\ UNCHANGED <<dbVars, metaVars, cur, call>>

\* Page::freelist_page_ids as called
FreelistPageIdsCall(addr, junk) ==
    /\ req.op = "freelist_page"
    /\ req.last = "none"
    /\ req' = [req EXCEPT !.last = "ids", !.ids = freelist_page_ids(req.page, addr, junk)]
    /\ UNCHANGED <<dbVars, metaVars, cur, call>>

NextFreelistPage ==
    \/ \E addr \in Addresses : FreelistPageCountCall(addr)
    \/ \E addr \in Addresses, junk \in {0, MaxPgid} : FreelistPageIdsCall(addr, junk)

SpecFreelistPage == InitFreelistPage /\ [][NextFreelistPage]_vars

(***************************************************************************)
(* The freelist on its own: Interface::allocate and Interface::free on the *)
(* freelists a database can hold.                                          *)
(***************************************************************************)
\* the freelists: free ids from page 2 on, and at most one id pending for
\* transaction 1 that is not free
FreelistInputs ==
    {f \in {[FreelistNew EXCEPT !.ids = ids, !.pending[1] = pend] :
                ids \in SUBSET (2..MaxPgid),
                pend \in {{}} \cup {{q} : q \in 2..MaxPgid}} :
        f.ids \cap f.pending[1] = {}}

InitFreelist ==
    /\ DbIdle
    /\ MetaIdle
    /\ cur = CursorNone
    /\ call = CallNone
    /\ req \in {[op |-> "freelist", last |-> "none", f |-> f, before |-> f,
                 n |-> 0, pgid |-> 0, calls |-> 0] : f \in FreelistInputs}

\* Interface::allocate as called
FreelistAllocateCall(n) ==
    /\ req.op = "freelist"
    /\ req.calls < MaxAllocCalls
    /\ LET a == FreelistAllocate(req.f, 2, n)
       IN  req' = [req EXCEPT !.last = "allocate", !.before = req.f, !.f = a.f,
                              !.n = n, !.pgid = a.pgid, !.calls = @ + 1]
    /\ UNCHANGED <<dbVars, metaVars, cur, call>>

\* Interface::free as called for a page without overflow, by transaction 2
FreelistFreeCall(pgid) ==
    /\ req.op = "freelist"
    /\ req.calls < MaxAllocCalls
    /\ LET r == FreelistFree(req.f, 2, [PageDefault EXCEPT !.id = pgid])
       IN  req' = [req EXCEPT !.last = IF r.panicked THEN "panic" ELSE "free",
                              !.before = req.f, !.f = r.f,
                              !.n = 0, !.pgid = pgid, !.calls = @ + 1]
    /\ UNCHANGED <<dbVars, metaVars, cur, call>>

NextFreelist ==
    \/ \E n \in 1..MaxRun : FreelistAllocateCall(n)
    \/ \E pgid \in PgIds : FreelistFreeCall(pgid)

SpecFreelist == InitFreelist /\ [][NextFreelist]_vars

(***************************************************************************)
(* common/page.rs Page::typ and Page::fast_check.                          *)
(***************************************************************************)
\* Page::typ: the name of the first of the four tests that holds
PageTyp(p) ==
    IF IsBranchPage(p) THEN "branch"
    ELSE IF IsLeafPage(p) THEN "leaf"
    ELSE IF IsMetaPage(p) THEN "meta"
    ELSE IF IsFreelistPage(p) THEN "freelist"
    ELSE "unknown"

\* Page::fast_check: TRUE when one of its two asserts fails
FastCheckPanics(p, id) ==
    \/ p.id # id
    \/ ~(IsMetaPage(p) \/ IsBranchPage(p) \/ IsLeafPage(p) \/ IsFreelistPage(p))

\* the page-type flags
TypeFlags == {BRANCH_PAGE, LEAF_PAGE, META_PAGE, FREELIST_PAGE}

\* the sum of a set of flags
RECURSIVE FlagsOf(_)
FlagsOf(S) == IF S = {} THEN 0 ELSE LET f == CHOOSE x \in S : TRUE IN f + FlagsOf(S \ {f})

InitPageType ==
    /\ DbIdle
    /\ MetaIdle
    /\ cur = CursorNone
    /\ call = CallNone
    /\ req \in {[op |-> "page_type", last |-> "none",
                 page |-> [PageDefault EXCEPT !.id = id, !.flags = FlagsOf(S)],
                 id |-> 0, panicked |-> FALSE, typ |-> ""] :
                    id \in 2..MaxCheckPgid, S \in SUBSET TypeFlags}

\* Page::fast_check as called
FastCheckCall(id) ==
    /\ req.op = "page_type"
    /\ req.last = "none"
    /\ req' = [req EXCEPT !.last = "fast_check", !.id = id,
                          !.panicked = FastCheckPanics(req.page, id)]
    /\ UNCHANGED <<dbVars, metaVars, cur, call>>

\* Page::typ as called
TypCall ==
    /\ req.op = "page_type"
    /\ req.last = "none"
    /\ req' = [req EXCEPT !.last = "typ", !.typ = PageTyp(req.page)]
    /\ UNCHANGED <<dbVars, metaVars, cur, call>>

NextPageType ==
    \/ \E id \in 2..MaxCheckPgid : FastCheckCall(id)
    \/ TypCall

SpecPageType == InitPageType /\ [][NextPageType]_vars

(***************************************************************************)
(* Properties.                                                             *)
(***************************************************************************)
\* the ids the freelist holds, free or pending
FreelistIds(f) == f.ids \cup FreelistPendingIds(f)

(* C1: a read transaction sees, for every key and for its whole life, what the
   meta it copied at begin held, whatever write transactions begin, put,
   delete and commit meanwhile. *)
ReaderSnapshotIsolation ==
    \A p \in Procs :
        tx[p].state = "reader" => ViewOf(TxRootInodes(file, tx[p])) = tx[p].view

\* a reader that still sees the first value after a writer committed the second
ReaderSnapshotWitness ==
    \E p \in Procs :
        /\ tx[p].state = "reader"
        /\ tx[p].view[<<MaxKey>>] = {<<1>>}
        /\ hist.txid > tx[p].meta.txid
        /\ CanBegin
        /\ AuthoritativeView[<<MaxKey>>] = {<<2>>}

(* C2: the meta write is the commit point: after a crash while a write
   transaction had not written its meta page, the file still holds the
   previous authoritative meta, and a reopen gives that meta, its txid and
   its keys. *)
CrashBeforeMetaWriteKeepsCommitted ==
    (hist.closed = "crash" /\ hist.midCommit /\ hist.reopened) =>
        /\ MetaSelect(file[0].meta, file[1].meta).ok
        /\ MetaSelect(file[0].meta, file[1].meta).meta.txid = hist.txid
        /\ openRes.result = "Ok"
        /\ DbMeta(db).ok
        /\ DbMeta(db).meta.txid = hist.txid
        /\ AuthoritativeView = hist.view

(* C3: at most one write transaction is open; it holds the rwlock; a second
   begin of a write transaction cannot proceed while it is open; a read
   transaction can begin whether or not a writer is open. *)
SingleWriter ==
    /\ Cardinality({p \in Procs : IsWriter(tx[p])}) <= 1
    /\ \A p \in Procs : IsWriter(tx[p]) => db.rwlock = {p} /\ db.rwtx = {tx[p].meta.txid}
    /\ \A p \in Procs : (tx[p].state = "waiting" /\ \E q \in Procs : IsWriter(tx[q]))
                            => ~ENABLED BeginWrite(p)
    /\ \A p \in Readers : (tx[p].state = "none" /\ CanBegin) => ENABLED BeginRead(p)

\* a writer, a thread blocked in begin, and a reader, at once
SingleWriterWitness ==
    \E p, q, r \in Procs :
        /\ IsWriter(tx[p])
        /\ tx[q].state = "waiting"
        /\ tx[r].state = "reader"

(* C4: a bucket is a map: in a write transaction get(k) gives the value of
   the last put(k, v), and None when k was deleted since or never put; a
   read transaction begun after the commit sees the same. *)
BucketIsMap ==
    /\ \A p \in Procs :
          tx[p].state = "writer" => ViewOf(TxRootInodes(file, tx[p])) = tx[p].view
    /\ \A p \in Procs :
          (tx[p].state = "reader" /\ tx[p].meta.txid = hist.txid)
              => ViewOf(TxRootInodes(file, tx[p])) = hist.map

(* C5: a page released by write transaction T is not handed out by allocate
   while a read transaction with txid < T is open, also when readers shared
   a txid and only some of them have closed. *)
NoReuseUnderOlderReader ==
    \A a \in hist.allocs : a.by # 0 => \A r \in a.readers : r >= a.by

\* a writer has allocated while a page stays pending for the one reader left of two
\* that shared a txid
NoReuseWitness ==
    \E p \in Procs :
        /\ tx[p].state = "spilled"
        /\ hist.allocs # {}
        /\ \E r \in hist.shared : \E t \in TxIds :
              /\ r < t
              /\ t < tx[p].meta.txid
              /\ db.freelist[1].pending[t] # {}
              /\ db.freelist[1].readonly_txids[r] = 1

(* C6: in a committed state (no write transaction open) no page id is both in
   the freelist, free or pending, in memory or in the freelist page of the
   file, and reachable from the authoritative meta. *)
FreelistDisjointFromTree ==
    (CanBegin /\ db.rwtx = {}) =>
        LET m == DbMeta(db).meta
        IN  /\ m.root.root \notin FreelistIds(db.freelist[1])
            /\ m.freelist \notin FreelistIds(db.freelist[1])
            /\ m.root.root \notin Range(file[m.freelist].ids)
            /\ m.freelist \notin Range(file[m.freelist].ids)

\* a committed state of this run with free and with pending pages
FreelistDisjointWitness ==
    /\ CanBegin
    /\ db.rwtx = {}
    /\ hist.txid > 2
    /\ db.freelist[1].ids # {}
    /\ FreelistPendingIds(db.freelist[1]) # {}

(* C7: after a clean close, a reopen gives a read transaction whose view is
   the view of the last committed write transaction. *)
ReopenAfterCloseKeepsView ==
    (hist.closed = "clean" /\ hist.reopened) =>
        /\ openRes.result = "Ok"
        /\ DbMeta(db).ok
        /\ AuthoritativeView = hist.view

(* C8: Meta::write puts the meta in page txid mod 2, which is 0 or 1, so the
   writes of two successive txids T and T + 1 go to different pages and the
   second leaves the page of the first as it was. *)
MetaSlotAlternation ==
    /\ page.flags = META_PAGE => (page.id \in {0, 1} /\ page.id = page.meta.txid % 2)
    /\ (slots.prev >= 0 /\ slots.last = slots.prev + 1) =>
            /\ slots.at[slots.prev % 2] = slots.prev
            /\ slots.at[slots.last % 2] = slots.last

\* T and then T + 1 were written
MetaSlotWitness == slots.prev >= 0 /\ slots.last = slots.prev + 1

(* C9: open takes as authoritative the meta page that validates and has the
   higher txid, the one that validates when only one does, and fails when
   neither validates. *)
OpenSelectsValidMeta ==
    openRes.result # "none" =>
        IF MetaSelect(file[0].meta, file[1].meta).ok
        THEN /\ openRes.result = "Ok"
             /\ DbMeta(db).ok
             /\ DbMeta(db).meta = MetaSelect(file[0].meta, file[1].meta).meta
        ELSE openRes.result = "Err"

(* C10: Meta::validate gives Ok exactly when the magic is MAGIC, the version
   is VERSION and the checksum is the FNV-1a-64 sum of the bytes before it,
   else the error of the first of the three that fails. *)
ValidateExact ==
    result \in {"Ok", "Invalid", "VersionMismatch", "Checksum"} =>
        result = IF meta.magic # MAGIC THEN "Invalid"
                 ELSE IF meta.version # VERSION THEN "VersionMismatch"
                 ELSE IF meta.checksum # Fnv1a64(as_slice_no_checksum(meta)) THEN "Checksum"
                 ELSE "Ok"

\* the keys of the leaves of a bucket, ascending
CursorAllKeys(tree) ==
    LET ks == UNION {{tree[i].inodes[j].key[1] : j \in 1..Len(tree[i].inodes)} :
                        i \in {q \in DOMAIN tree : tree[q].leaf}}
    IN  [i \in 1..Cardinality(ks) |-> <<SortedSeq(ks)[i]>>]

\* the keys of a bucket from a key on, ascending
CursorKeysFrom(tree, k) ==
    LET all == CursorAllKeys(tree)
        skip == Cardinality({i \in 1..Len(all) : KeyCmp(all[i], k) < 0})
    IN  SubSeq(all, skip + 1, Len(all))

IsPrefix(a, b) == Len(a) <= Len(b) /\ a = SubSeq(b, 1, Len(a))

(* C11: first() and then next() after next() give the keys of the bucket in
   ascending order, each once, every next() that is not at the end giving the
   successor of the key before, and None only after the last key. *)
IterationYieldsKeysInOrder ==
    (cur.state # "none" /\ cur.mode = "first") =>
        /\ cur.state = "open"
        /\ IsPrefix(cur.seen, CursorAllKeys(cur.tree))
        /\ cur.res = <<>> => cur.seen = CursorAllKeys(cur.tree)

(* C12: seek(k) gives the smallest key that is not below k, None when there is
   none, and the next() calls after it give the keys that follow, ascending,
   then None. *)
SeekThenNextInOrder ==
    (cur.state # "none" /\ cur.mode = "seek") =>
        /\ cur.state = "open"
        /\ IsPrefix(cur.seen, CursorKeysFrom(cur.tree, cur.seek))
        /\ cur.res = <<>> => cur.seen = CursorKeysFrom(cur.tree, cur.seek)

\* the stack points at the last key of the bucket
OnLastElement(tree, stack) ==
    /\ key_value(tree, stack) # <<>>
    /\ key_value(tree, stack)[1].key = CursorAllKeys(tree)[Len(CursorAllKeys(tree))]

(* C19: a movement that returns an entry returns the key under the cursor, with
   no value when the flags of that inode have the bucket bit, else with the
   value stored there. *)
CursorEntryOfInode ==
    (cur.state = "open" /\ cur.last # "none" /\ cur.res # <<>>) =>
        LET r == cur.stack[Len(cur.stack)]
        IN  /\ cur.stack # <<>>
            /\ r.index < Len(cur.tree[r.pgid].inodes)
            /\ LET e == cur.tree[r.pgid].inodes[r.index + 1]
               IN  /\ cur.res[1].key = e.key
                   /\ cur.res[1].value = IF e.key = <<CursorBucketKey>> THEN <<>>
                                         ELSE <<e.value>>

\* prev() came back to the key that holds a sub-bucket
CursorEntryWitness ==
    /\ cur.state = "open"
    /\ cur.last = "prev"
    /\ cur.res # <<>>
    /\ cur.res[1].key = <<CursorBucketKey>>
    /\ cur.res[1].value = <<>>

(* C20: next() on the last element of the bucket returns None and leaves every
   frame of the stack as it was, so the cursor stays on the last element. *)
NextAtEndStays ==
    (cur.state # "none" /\ cur.last = "next" /\ OnLastElement(cur.tree, cur.before)) =>
        /\ cur.state = "open"
        /\ cur.res = <<>>
        /\ cur.stack = cur.before
        /\ OnLastElement(cur.tree, cur.stack)

\* next() was called on the last key of the second leaf under a branch
NextAtEndWitness ==
    /\ cur.state = "open"
    /\ cur.last = "next"
    /\ Len(cur.before) = 2
    /\ OnLastElement(cur.tree, cur.before)
    /\ cur.res = <<>>

\* a step in which the write transaction of thread p ends without a commit
RolledBack(p) ==
    /\ IsWriter(tx[p])
    /\ tx'[p].state = "none"
    /\ db'.opened
    /\ hist'.txid = hist.txid

\* after that step: the meta, the pages it points at, nothing pending for the txid
RollbackKeepsTree(p) ==
    LET b == tx[p].begin[1]
    IN  /\ DbMeta(db').ok
        /\ DbMeta(db').meta = b.meta
        /\ file'[b.meta.root.root] = b.root
        /\ file'[b.meta.freelist] = b.freelist
        /\ db'.freelist[1].pending[tx[p].meta.txid] = {}
        /\ db'.rwtx = {}

(* C13 as stated: after the rollback of a write transaction the authoritative
   meta, the tree under it and the free set of the freelist are what they were
   before the transaction began, and nothing is pending for its txid. *)
RollbackRestoresFreeSet ==
    [][\A p \in Procs : RolledBack(p) =>
            /\ RollbackKeepsTree(p)
            /\ db'.freelist[1].ids = tx[p].begin[1].free]_vars

(* C13 amended: after the rollback of a write transaction the authoritative
   meta and the tree under it are what they were before the transaction began,
   nothing is pending for its txid, every id that was free before it began is
   free, and the free and pending ids together are those of before; the free
   set may hold more, the ids that begin and closing readers promoted. *)
RollbackDiscardsUpdates ==
    [][\A p \in Procs : RolledBack(p) =>
            /\ RollbackKeepsTree(p)
            /\ tx[p].begin[1].free \subseteq db'.freelist[1].ids
            /\ FreelistIds(db'.freelist[1]) = tx[p].begin[1].all]_vars

\* a write transaction that had spilled was rolled back, no other has begun since
RollbackWitness ==
    /\ hist.rolled # 0
    /\ db.opened
    /\ db.rwtx = {}
    /\ db.freelist[1].pending[hist.rolled] = {}
    /\ db.freelist[1].ids # {}

(* C14: update runs f in a write transaction and ends it by the result of f:
   after Ok the transaction is committed and later transactions see the
   changes of f; after an error the transaction is rolled back, update returns
   that error and the database is as before. *)
UpdateEndsTransaction ==
    (call.op = "update" /\ call.fres # "panic") =>
        /\ call.ret = call.fres
        /\ db.rwtx = {}
        /\ RwLockFree(db)
        /\ AuthoritativeView = IF call.fres = "Ok" THEN call.expect ELSE call.before

(* C15: view returns what f returned: the error of f as it is, Ok when f
   returned Ok. *)
ViewReturnsResultOfF == call.op = "view" => call.ret = call.fres

\* view came back with the error of f
ViewReturnsWitness == call.op = "view" /\ call.fres = "Invalid" /\ call.ret = "Invalid"

(* C17: put on a writable transaction answers a key of no bytes with
   KeyRequired, a key of more than 32768 bytes with KeyTooLarge, and stores
   any other key, one of exactly 32768 bytes too. *)
PutChecksKeySize ==
    (req.op = "put" /\ IsWriter(req.before)
        /\ ~HoldsBucket(TxRootInodes(file, req.before), req.key)) =>
        /\ req.result = IF Len(req.key) = 0 THEN "KeyRequired"
                        ELSE IF Len(req.key) > 32768 THEN "KeyTooLarge"
                        ELSE "Ok"
        /\ req.result = "Ok" =>
              \E i \in 1..Len(TxRootInodes(file, req.t)) :
                  TxRootInodes(file, req.t)[i].key = req.key

\* the errors of the data constraints and of the state of the transaction
CallErrors ==
    {"TxClosed", "TxNotWritable", "KeyRequired", "KeyTooLarge", "ValueTooLarge",
     "IncompatibleValue"}

(* C18: a put, delete or cursor delete that fails with a data-constraint or a
   transaction-state error gives that error (TxNotWritable on a read-only
   transaction, IncompatibleValue on a key that holds a sub-bucket), leaves the
   transaction open and the bucket as it was, and a further call can follow. *)
FailedCallKeepsBucket ==
    (req.op \in {"put", "delete", "cursor delete"} /\ req.result \in CallErrors) =>
        /\ req.state = "open"
        /\ req.t.state = req.before.state
        /\ TxRootInodes(file, req.t) = TxRootInodes(file, req.before)
        /\ ~IsWriter(req.before) => req.result = "TxNotWritable"
        /\ (IsWriter(req.before) /\ HoldsBucket(TxRootInodes(file, req.before), req.key))
              => req.result = "IncompatibleValue"
        /\ req.calls < MaxPutCalls => ENABLED DeleteCall(req.key)

\* the last call the bound allows was a put over a key that holds a sub-bucket: it
\* failed and the transaction is still open
FailedCallWitness ==
    /\ req.op = "put"
    /\ req.result = "IncompatibleValue"
    /\ req.state = "open"
    /\ req.calls = MaxPutCalls

\* a write transaction past its commit point whose callbacks have not run yet
CallbacksDue(p) == tx[p].state = "committed" /\ tx[p].handlers > 0

\* the callbacks that have run are those of transactions whose meta has been written
CalledAfterCommit == \A t \in hist.called : t <= DbMeta(db).meta.txid

(* C16: the callbacks registered with on_commit run only after the commit of
   their transaction has succeeded, never after a rollback or a failed commit,
   and no transaction begun later has the writes of that transaction as its
   meta while the callbacks have not run. *)
CallbacksBeforeLaterTx ==
    /\ CalledAfterCommit
    /\ \A p \in Procs : CallbacksDue(p) =>
          \A q \in Procs \ {p} : tx[q].state # "none" => tx[q].meta.txid < tx[p].meta.txid

(* C16, amended: the callbacks registered with on_commit run only after the
   meta write of their transaction, never after a rollback or a failed commit;
   while they are due the meta of their transaction is the authoritative one,
   which a read transaction may copy, and the transaction still holds the
   writer lock. *)
CallbacksAfterCommitPoint ==
    /\ CalledAfterCommit
    /\ \A p \in Procs : CallbacksDue(p) =>
          /\ DbMeta(db).meta.txid = tx[p].meta.txid
          /\ db.rwlock = {p}
          /\ tx[p].meta.txid \notin hist.called
          /\ ENABLED CommitCallbacks(p)

\* the callbacks of one transaction have run, and those of a later one are due while a
\* read transaction already holds the meta that transaction wrote
CallbacksWitness ==
    /\ hist.called # {}
    /\ \E p \in Procs : /\ CallbacksDue(p)
                       /\ \E q \in Procs : /\ tx[q].state = "reader"
                                          /\ tx[q].meta.txid = tx[p].meta.txid

\* the root of the bucket under the cursor is a leaf without elements
CursorOnEmptyBucket ==
    /\ cur.state # "none"
    /\ page_node(cur.tree, cur.root).leaf
    /\ page_node(cur.tree, cur.root).inodes = <<>>

(* C21: first() on a bucket whose root leaf has no element returns None: the
   call does not panic, and no frame of the stack is left at an index outside
   its page. *)
FirstOnEmptyBucketIsNone ==
    (CursorOnEmptyBucket /\ cur.last = "first") =>
        /\ cur.state = "open"
        /\ cur.res = <<>>
        /\ \A d \in 1..Len(cur.stack) :
              cur.stack[d].index <= Max(ElemCount(cur.tree, cur.stack[d]) - 1, 0)

(* C22: after open or open_with has returned a database, path() returns the
   path that was passed to the call. *)
PathIsPathOpened == openRes.result = "Ok" => DbPath(db) = openRes.path

\* the sum of counter f of self and of other is an i32
StatsSumFits(f) ==
    /\ req.other[f] >= 0 => req.self[f] <= I32_MAX - req.other[f]
    /\ req.other[f] < 0 => req.self[f] >= I32_MIN - req.other[f]

(* C23: BucketStats::add and += give the same result: every counter is the
   sum of the two counters, and depth is the larger of the two depths.  The
   counters are i32: where a sum is no i32 both calls panic alike (overflow
   checked) or wrap alike (overflow unchecked). *)
StatsAddIsFieldwiseSum ==
    (req.op = "stats" /\ req.done = "add") =>
        /\ req.add = req.assign
        /\ req.add[1].panicked <=>
              (req.build = "debug" /\ \E f \in StatsCounters : ~StatsSumFits(f))
        /\ \A f \in StatsCounters :
              StatsSumFits(f) => req.add[1].self[f] = req.self[f] + req.other[f]
        /\ req.add[1].self.depth = Max(req.self.depth, req.other.depth)

\* two stats were added whose sums are all i32: a counter grew and the depth became
\* that of other, which was the larger
StatsAddWitness ==
    /\ req.op = "stats"
    /\ req.done = "add"
    /\ \A f \in StatsCounters : StatsSumFits(f)
    /\ req.self.depth < req.other.depth
    /\ req.add[1].self.depth = req.other.depth
    /\ req.self.key_n = MaxStat
    /\ req.add[1].self.key_n = MaxStat + 1

\* the places of the inodes with key k
InodesWithKey(inodes, k) == {i \in 1..Len(inodes) : inodes[i].key = k}

\* the inodes without those of key k, in their order
RECURSIVE InodesWithout(_, _)
InodesWithout(inodes, k) ==
    IF inodes = <<>> THEN <<>>
    ELSE IF inodes[1].key = k THEN InodesWithout(Tail(inodes), k)
    ELSE <<inodes[1]>> \o InodesWithout(Tail(inodes), k)

(* C24: put(k, k, v, pgid, flags) with a non-empty k on a node with sorted
   inodes overwrites the inode of key k when there is one, the count of inodes
   unchanged; else it inserts one inode at the place that keeps the keys
   sorted, also after every key and into an empty node; the other inodes are
   unchanged. *)
PutInsertsOrOverwrites ==
    (req.op = "node" /\ req.last = "put" /\ req.old = req.new /\ InodesSorted(req.before.inodes)) =>
        /\ ~req.panicked
        /\ InodesSorted(req.node.inodes)
        /\ InodesWithKey(req.node.inodes, req.new) # {}
        /\ \A i \in InodesWithKey(req.node.inodes, req.new) :
              req.node.inodes[i] = Inode(0, 0, req.new, req.value)
        /\ InodesWithout(req.node.inodes, req.new) = InodesWithout(req.before.inodes, req.new)
        /\ Len(req.node.inodes) = Len(req.before.inodes)
              + (IF InodesWithKey(req.before.inodes, req.new) = {} THEN 1 ELSE 0)

(* C25: del(k) on a node with sorted inodes removes the inode of key k when
   there is one, the other inodes unchanged and in order, and marks the node
   unbalanced; when there is none the inodes are unchanged. *)
DelRemovesKey ==
    (req.op = "node" /\ req.last = "del" /\ InodesSorted(req.before.inodes)) =>
        /\ req.node.inodes = InodesWithout(req.before.inodes, req.old)
        /\ InodesWithKey(req.before.inodes, req.old) # {} => req.node.unbalanced

(* C26: after any sequence of put and del calls with non-empty keys, put with
   old_key different from new_key among them, the inodes of the node strictly
   ascend by key: no key twice, no empty key. *)
NodeInodesSorted == req.op = "node" => InodesSorted(req.node.inodes)

(* C26, amended: the inodes strictly ascend, no key twice and no empty key,
   after any sequence of put and del calls with non-empty keys in which every
   put writes a new_key that lies between the inodes around the place of its
   old_key, as every put with old_key = new_key does. *)
NodeInodesSortedUnlessReordered ==
    (req.op = "node" /\ ~req.reordered) => InodesSorted(req.node.inodes)

\* a put with old_key different from new_key kept the order, and a put after it too
NodeSortedWitness ==
    /\ req.op = "node"
    /\ req.last = "put"
    /\ ~req.reordered
    /\ ~req.panicked
    /\ req.old # req.new
    /\ req.calls = MaxNodeCalls
    /\ Len(req.node.inodes) >= 2
    /\ req.node.inodes # req.before.inodes

\* the indexes (from 0) the loop of split_index passes at which the inode would take
\* the size over the threshold
SplitOverThreshold(n, threshold) ==
    {i \in MIN_KEYS_PER_PAGE..(Len(n.inodes) - MIN_KEYS_PER_PAGE - 1) :
        PAGE_HEADER_SIZE + InodesSize(n, i) + InodeSize(n, i + 1) > threshold}

(* C27: when split_two splits a node, the split index is at least 2 and leaves
   at least 2 inodes on the right, so both nodes have at least 2 inodes; it is
   the smallest index from 2 at which the inode would take the size over the
   threshold, or the last index that leaves 2 inodes on the right when there
   is none. *)
SplitKeepsMinKeys ==
    (req.op = "split" /\ req.last = "split_two" /\ req.two.split) =>
        /\ req.two.index >= 2
        /\ Len(req.node.inodes) - req.two.index >= 2
        /\ Len(req.two.a) >= 2
        /\ Len(req.two.b) >= 2
        /\ IF SplitOverThreshold(req.node, req.two.threshold) # {}
           THEN req.two.index = SetMin(SplitOverThreshold(req.node, req.two.threshold))
           ELSE req.two.index \in {Len(req.node.inodes) - 3, Len(req.node.inodes) - 2}

(* C28: size() is the serialized byte count of the node: the page header and,
   for every inode, the element, the key and the value; size_less_than(v) is
   true exactly when that count is less than v. *)
SizeIsSerializedSize ==
    /\ (req.op = "split" /\ req.last = "size") =>
          req.size = PAGE_HEADER_SIZE + InodesSize(req.node, Len(req.node.inodes))
    /\ (req.op = "split" /\ req.last = "size_less_than") =>
          (req.less <=> PAGE_HEADER_SIZE + InodesSize(req.node, Len(req.node.inodes)) < req.arg)

(* C29: a leaf node with at least one inode and sorted non-empty keys, written
   to a zeroed page with Node::write and read back with Node::read, gives a
   node with the same inodes: flags, key and value of each, in the same
   order. *)
WriteReadRoundTrip ==
    (req.op = "page" /\ req.last = "write" /\ req.leaf /\ req.inodes # <<>>) =>
        /\ req.written
        /\ ~req.node.panicked
        /\ req.node.inodes = req.inodes

(* C30: Node::read of a page with at least one element, every key non-empty,
   does not panic and sets pgid to the id of the page, is_leaf to its leaf
   flag, the inodes to its elements (key and pgid of a branch element; flags,
   key and value of a leaf element) and the key of the node to the key of the
   first inode. *)
ReadSetsNode ==
    (req.op = "page" /\ req.last = "read" /\ req.inodes # <<>>) =>
        /\ ~req.node.panicked
        /\ req.node.pgid = req.page.id
        /\ req.node.is_leaf = req.leaf
        /\ req.node.inodes = req.inodes
        /\ req.node.key = req.inodes[1].key

\* the serialized byte count of a node: the page header and every inode
SerializedSize(n) == PAGE_HEADER_SIZE + InodesSize(n, Len(n.inodes))

(* C31: split_two leaves a node unsplit exactly when it has fewer than
   2 * MIN_KEYS_PER_PAGE (4) inodes or its serialized size is less than the
   page size; a node of 4 or more inodes whose size is at least the page size
   is split. *)
SplitTwoSplitsFromFour ==
    (req.op = "split" /\ req.last = "split_two") =>
        (~req.two.split <=>
            (Len(req.node.inodes) < 2 * MIN_KEYS_PER_PAGE
                \/ SerializedSize(req.node) < req.arg))

(* C31, amended: split_two leaves a node unsplit exactly when it has at most
   2 * MIN_KEYS_PER_PAGE (4) inodes or its serialized size is less than the
   page size; a node of 5 or more inodes whose size is at least the page size
   is split, and an unsplit node keeps all its inodes. *)
SplitTwoSplitsOverFour ==
    (req.op = "split" /\ req.last = "split_two") =>
        /\ ~req.two.split <=>
              (Len(req.node.inodes) <= 2 * MIN_KEYS_PER_PAGE
                  \/ SerializedSize(req.node) < req.arg)
        /\ ~req.two.split => (req.two.a = req.node.inodes /\ req.two.b = <<>>)

\* split_two has left a node of exactly 4 inodes that does not fit the page unsplit
SplitTwoFourWitness ==
    /\ req.op = "split"
    /\ req.last = "split_two"
    /\ Len(req.node.inodes) = 2 * MIN_KEYS_PER_PAGE
    /\ SerializedSize(req.node) >= req.arg
    /\ ~req.two.split

(* C32: after split_two has split a node, the node and the new node have the
   same is-leaf value and the same live parent (a parent built for a node
   that had none is kept), and the new node is in the list of children of
   that parent. *)
SplitLinksNextToParent ==
    (req.op = "split" /\ req.last = "split_two" /\ req.two.split) =>
        /\ req.links["next"].is_leaf = req.links["self"].is_leaf
        /\ NodeParent(req.links, "self") # "none"
        /\ NodeParent(req.links, "next") = NodeParent(req.links, "self")
        /\ \E i \in 1..Len(req.links[NodeParent(req.links, "self")].children) :
              req.links[NodeParent(req.links, "self")].children[i] = "next"

\* the nodes split has returned hold the inodes of the node in their order
SplitPartitions ==
    (req.op = "split" /\ req.last = "split" /\ req.done) =>
        /\ Len(req.nodes) >= 1
        /\ Concat(req.nodes) = req.node.inodes

\* split started comes to its return
SplitTerminates ==
    (req.op = "split" /\ req.last = "split") ~> (req.op = "split" /\ req.last = "split" /\ req.done)

(* C33: Node::split terminates for every node and page size, and the nodes it
   returns, concatenated in list order, are exactly the inodes of the node in
   their order; every node it returns has at least one inode. *)
SplitReturnsNonEmptyPartition ==
    /\ SplitTerminates
    /\ [](SplitPartitions
          /\ ((req.op = "split" /\ req.last = "split")
                  => \A i \in 1..Len(req.nodes) : req.nodes[i] # <<>>))

(* C33, amended: Node::split terminates for every node and page size, and the
   nodes it returns, concatenated in list order, are exactly the inodes of
   the node in their order; every node it returns has at least one inode
   when the node split has one, and split of a node without inodes returns
   that node alone. *)
SplitReturnsPartition ==
    /\ SplitTerminates
    /\ [](SplitPartitions
          /\ ((req.op = "split" /\ req.last = "split" /\ req.node.inodes # <<>>)
                  => \A i \in 1..Len(req.nodes) : req.nodes[i] # <<>>)
          /\ ((req.op = "split" /\ req.last = "split" /\ req.done /\ req.node.inodes = <<>>)
                  => req.nodes = << <<>> >>))

\* split has returned three nodes or more
SplitPartitionWitness ==
    /\ req.op = "split"
    /\ req.last = "split"
    /\ req.done
    /\ Len(req.nodes) >= 3
    /\ Concat(req.nodes) = req.node.inodes

\* the root or the persisted freelist of a meta is at or above its high water mark
MetaAboveMark(m) ==
    \/ U64Ge(m.root.root, m.pgid)
    \/ m.freelist # PGID_NO_FREELIST /\ U64Ge(m.freelist, m.pgid)

(* C34: Meta::write panics and leaves the page and the meta as they are when
   the root is at or above the high water mark, or when the freelist is not
   PGID_NO_FREELIST and is at or above it; so the meta on every page written
   has its root and its persisted freelist below its high water mark. *)
WriteRefusesAboveMark ==
    /\ [][(Write /\ MetaAboveMark(meta)) =>
              (result' = "panic" /\ page' = page /\ meta' = meta)]_vars
    /\ [](IsMetaPage(page) =>
              /\ page.meta.root.root < page.meta.pgid
              /\ page.meta.freelist = PGID_NO_FREELIST \/ page.meta.freelist < page.meta.pgid)

\* write has refused a meta for its freelist alone and the page is untouched
WriteRefusedWitness ==
    /\ result = "panic"
    /\ ~U64Ge(meta.root.root, meta.pgid)
    /\ meta.freelist # PGID_NO_FREELIST
    /\ U64Ge(meta.freelist, meta.pgid)
    /\ page = PageDefault

(* C35: for a meta with the right magic and version and with root and
   freelist below the high water mark, after Meta::write the meta passes
   validate, the page is a meta page and the meta of the page is the meta
   written in every field, the checksum being the FNV-1a sum of the bytes
   before it, whatever the checksum was before. *)
WriteThenReadBack ==
    [][(Write /\ meta.magic = MAGIC /\ meta.version = VERSION /\ ~MetaAboveMark(meta)) =>
          /\ result' # "panic"
          /\ validate(meta') = "Ok"
          /\ IsMetaPage(page')
          /\ page'.meta = meta'
          /\ meta' = [meta EXCEPT !.checksum = Fnv1a64(as_slice_no_checksum(meta))]]_vars

\* a meta has been written and is on the page, its checksum the sum of its fields
WriteReadBackWitness ==
    /\ result = "none"
    /\ slots.last = meta.txid
    /\ IsMetaPage(page)
    /\ page.meta = meta
    /\ validate(meta) = "Ok"
    /\ meta.checksum = Fnv1a64(as_slice_no_checksum(meta))

(* C36: on a freelist page with count OVERFLOW_COUNT freelist_page_count
   returns (1, C), C the first u64 of the body, and freelist_page_ids returns
   the C ids after that first u64; with a smaller count the list is the first
   count u64s of the body; so the ids of a page written with the overflow
   encoding are read back as they were. *)
FreelistPageReadsOverflow ==
    /\ (req.op = "freelist_page" /\ req.last = "count" /\ req.page.count = OVERFLOW_COUNT) =>
          /\ ~req.count.panicked
          /\ req.count.idx = 1
          /\ req.count.count = req.page.ids[1]
    /\ (req.op = "freelist_page" /\ req.last = "ids" /\ IsFreelistPage(req.page)) =>
          /\ ~req.ids.panicked
          /\ req.ids.ids = IF req.page.count = OVERFLOW_COUNT
                           THEN SubSeq(req.page.ids, 2, req.page.ids[1] + 1)
                           ELSE SubSeq(req.page.ids, 1, req.page.count)

\* the ids from s on form a run of n free ids of the freelist f
FreeRunAt(f, s, n) == \A i \in 0..(n - 1) : (s + i) \in f.ids

(* C37: allocate(txid, n) returns the smallest page id that starts a run of n
   consecutive free ids and takes exactly those n ids out of the free set;
   without such a run it returns 0 and leaves the freelist as it is; the id
   returned is never 1, and no id of the run is pending. *)
AllocateSmallestRun ==
    (req.op = "freelist" /\ req.last = "allocate") =>
        IF req.pgid = 0
        THEN /\ \A s \in PgIds : ~FreeRunAt(req.before, s, req.n)
             /\ req.f = req.before
        ELSE /\ req.pgid > 1
             /\ FreeRunAt(req.before, req.pgid, req.n)
             /\ \A s \in 0..(req.pgid - 1) : ~FreeRunAt(req.before, s, req.n)
             /\ req.f.ids \subseteq req.before.ids
             /\ req.before.ids \ req.f.ids = req.pgid..(req.pgid + req.n - 1)
             /\ req.f.pending = req.before.pending
             /\ \A i \in 0..(req.n - 1) : (req.pgid + i) \notin FreelistPendingIds(req.before)

\* allocate has taken a run of two ids that is not the only one, with an id
\* pending
AllocateRunWitness ==
    /\ req.op = "freelist"
    /\ req.last = "allocate"
    /\ req.n = 2
    /\ req.pgid > 1
    /\ \E s \in PgIds : s > req.pgid + 1 /\ FreeRunAt(req.before, s, 2)
    /\ FreelistPendingIds(req.before) # {}
    /\ Cardinality(req.f.ids) = Cardinality(req.before.ids) - 2

\* no open read transaction has an id below t
NoReaderBelow(t) == \A q \in Procs : tx[q].state = "reader" => tx[q].meta.txid >= t

(* C38: pending pages do not stay pending: when every read transaction with
   an id below T has ended, the pages released by the committed writer T are
   free and no longer pending once the next write transaction has begun, and
   an allocate of one page then succeeds with one of the free pages. *)
PendingPromotedAtBegin ==
    [][(\E p \in Procs : BeginWrite(p)) =>
          \A t \in TxIds :
              (db.freelist[1].pending[t] # {} /\ NoReaderBelow(t)) =>
                  /\ db'.freelist[1].pending[t] = {}
                  /\ db.freelist[1].pending[t] \subseteq db'.freelist[1].ids
                  /\ FreelistAllocate(db'.freelist[1], t, 1).pgid \in db'.freelist[1].ids]_vars

\* a write transaction has begun and found pending a page that is free now,
\* while a read transaction is open
PendingPromotedWitness ==
    \E p \in Procs, q \in Procs :
        /\ tx[p].state = "writer"
        /\ tx[q].state = "reader"
        /\ tx[p].ops = 0
        /\ \E pg \in PgIds :
              /\ pg \in tx[p].begin[1].all
              /\ pg \notin tx[p].begin[1].free
              /\ pg \in db.freelist[1].ids

\* the page-type flags set in the flags of a page
TypeFlagsSet(p) == {f \in TypeFlags : (p.flags \div f) % 2 = 1}

\* the name typ gives to a page-type flag
TypeName(f) ==
    IF f = BRANCH_PAGE THEN "branch"
    ELSE IF f = LEAF_PAGE THEN "leaf"
    ELSE IF f = META_PAGE THEN "meta"
    ELSE "freelist"

(* C39: fast_check(id) panics unless the id of the page is id and exactly one
   of the page-type flags branch, leaf, meta and freelist is set; on a page
   with exactly one of them set exactly one of is_branch_page, is_leaf_page,
   is_meta_page and is_freelist_page is true and typ gives the name of that
   type. *)
FastCheckWantsOneType ==
    /\ (req.op = "page_type" /\ req.last = "fast_check") =>
          (~req.panicked <=>
              (req.page.id = req.id /\ Cardinality(TypeFlagsSet(req.page)) = 1))
    /\ (req.op = "page_type" /\ req.last = "typ"
            /\ Cardinality(TypeFlagsSet(req.page)) = 1) =>
          /\ Cardinality({b \in {<<1, IsBranchPage(req.page)>>, <<2, IsLeafPage(req.page)>>,
                                 <<3, IsMetaPage(req.page)>>, <<4, IsFreelistPage(req.page)>>} :
                             b[2]}) = 1
          /\ \A f \in TypeFlagsSet(req.page) : req.typ = TypeName(f)

====
